---------------------------- MODULE Spec2Model ----------------------------
(***************************************************************************)
(* Model of the LiveKit voice deployment of Open WebUI:                    *)
(*   - deploy/livekit/agent.py : the in-session control channel (data      *)
(*     packets -> context_set / context_clear tasks -> the agent's chat    *)
(*     context, serialised by one asyncio lock) and its outcome events;    *)
(*   - deploy/livekit/portal.py: the /token and /apply handlers that write *)
(*     room metadata and restart the agent dispatch.                       *)
(* The two programs share no state: AgentSpec runs the agent session,      *)
(* PortalSpec runs the portal against one room of the LiveKit server.      *)
(***************************************************************************)
EXTENDS Integers, Sequences, FiniteSets, TLC

VARIABLES
    \* ---- agent.py: one session (entrypoint) ----
    chat_ctx,      \* voice_agent.chat_ctx: the sequence of chat items
    tasks,         \* the context_set / context_clear tasks, in creation order
    events,        \* payloads handed to schedule_publish, in order
    lockHolder,    \* context_lock: index of the task holding it, 0 when free
    waiters,       \* context_lock: tasks waiting for it, first come first
    delivered,     \* number of packets handed to on_data_received
    last,          \* the last packet delivered and how it was answered
    session,       \* the options the session was started with (session_kwargs)
    \* ---- portal.py and the LiveKit server it talks to (one room) ----
    roomExists,    \* the room is known to the server
    roomMeta,      \* the room's metadata string
    participants,  \* identities of the participants in the room
    dispatches,    \* the room's agent dispatches, in creation order
    nextDispatch,  \* the next dispatch id the server hands out
    reqs           \* the HTTP requests being served, by slot

agentVars == <<chat_ctx, tasks, events, lockHolder, waiters, delivered, last, session>>
portalVars == <<roomExists, roomMeta, participants, dispatches, nextDispatch, reqs>>
vars == <<agentVars, portalVars>>

(***************************************************************************)
(* Bounds of the model.                                                    *)
(***************************************************************************)
\* LIVEKIT_MAX_CONTEXT_CHARS as configured for the checked session (the
\* default is 50000; the wrapper prefix alone is 39 characters long).
MAX_CONTEXT_CHARS == 41
\* Longest text a control message carries.
MaxTextLen == 3
\* Packets delivered to the session.
MaxPackets == 2
\* Dispatches the LiveKit server creates for the room.
MaxDispatches == 2

\* Dialogue items the chat context holds at most.
MaxDialogue == 2

(***************************************************************************)
(* Text.  A string is a sequence of one-character strings.                 *)
(***************************************************************************)
Whitespace == {" "}

\* The characters a message text is written with, longest text first.
Alphabet == <<"a", "b", "c", "d", "e", "f", "g", "h">>

\* wrapped = f"Reference context (provided by user):\n\n{text}"
ContextPrefix ==
    << "R","e","f","e","r","e","n","c","e"," ",
       "c","o","n","t","e","x","t"," ",
       "(","p","r","o","v","i","d","e","d"," ",
       "b","y"," ",
       "u","s","e","r",")",":",
       "\n","\n" >>

RECURSIVE LStrip(_)
LStrip(s) ==
    IF s # <<>> /\ Head(s) \in Whitespace THEN LStrip(Tail(s)) ELSE s

RECURSIVE RStrip(_)
RStrip(s) ==
    IF s # <<>> /\ s[Len(s)] \in Whitespace
    THEN RStrip(SubSeq(s, 1, Len(s) - 1))
    ELSE s

\* str.strip()
Strip(s) == RStrip(LStrip(s))

\* str.startswith(prefix), on identities written as <<prefix, rest>>
StartsWith(identity, prefix) == identity # <<>> /\ identity[1] = prefix

\* str.strip().lower() on the tokens a control payload carries
LowerStrip(s) ==
    CASE s = "CONTEXT_SET" -> "context_set"
      [] s = " context_clear " -> "context_clear"
      [] s = "APPEND" -> "append"
      [] s = " replace " -> "replace"
      [] OTHER -> s

\* The texts control messages carry: the first k letters, bare or padded
\* with whitespace, and whitespace alone.
Letters(k) == SubSeq(Alphabet, 1, k)

TextInputs ==
    { Letters(k) : k \in 0..MaxTextLen }
    \cup { <<" ">> \o Letters(k) \o <<" ">> : k \in 0..1 }


(***************************************************************************)
(* agent.py: the chat context and the helpers of apply_context.            *)
(***************************************************************************)
\* A chat item.  extra = {"owui_livekit_context": True} is the field tagged.
ChatItem(id, type, tagged, content) ==
    [id |-> id, type |-> type, tagged |-> tagged, content |-> content]

\* Mutant of is_context_item: every message counts as injected context.
is_context_item_AnyMessage(item) == item.type = "message"

\* type == "message" and extra.get("owui_livekit_context") is True
is_context_item(item) == item.type = "message" /\ item.tagged

\* Mutant of RemoveContextItems: the tagged items are kept.
RemoveContextItems_None(items) == items

\* [i for i in chat_ctx.items if not is_context_item(i)]
RemoveContextItems(items) == SelectSeq(items, LAMBDA i : ~is_context_item(i))

\* Mutant of find_last_context_message: no tagged item is ever found.
find_last_context_message_None(items) == 0

\* Index of the last tagged item, 0 for None.
find_last_context_message(items) ==
    LET hits == { k \in 1..Len(items) : is_context_item(items[k]) }
    IN  IF hits = {} THEN 0 ELSE CHOOSE k \in hits : \A j \in hits : j <= k

RECURSIVE PartsChars(_)
PartsChars(content) ==
    IF content = <<>> THEN 0 ELSE Len(Head(content)) + PartsChars(Tail(content))

RECURSIVE context_total_chars(_)
context_total_chars(items) ==
    IF items = <<>> THEN 0
    ELSE (IF is_context_item(Head(items)) THEN PartsChars(Head(items).content) ELSE 0)
         + context_total_chars(Tail(items))

\* if mode not in ("replace", "append"): mode = "replace"
NormMode(mode) == IF mode \in {"replace", "append"} THEN mode ELSE "replace"

\* remaining = MAX_CONTEXT_CHARS - current_chars
Remaining(items) == MAX_CONTEXT_CHARS - context_total_chars(items)

\* Mutant of ContextFull: the test is remaining < 0.
ContextFull_OffByOne(items) == MAX_CONTEXT_CHARS > 0 /\ Remaining(items) < 0

\* if remaining <= 0: ... return
ContextFull(items) == MAX_CONTEXT_CHARS > 0 /\ Remaining(items) <= 0

\* if len(text) > remaining: text = text[:remaining]; truncated = True
Truncated(items, text) == MAX_CONTEXT_CHARS > 0 /\ Len(text) > Remaining(items)

\* Mutant of ClipText: the text is cut one character short of the budget.
ClipText_Short(items, text) ==
    IF Truncated(items, text) THEN SubSeq(text, 1, Remaining(items) - 1) ELSE text

ClipText(items, text) ==
    IF Truncated(items, text) THEN SubSeq(text, 1, Remaining(items)) ELSE text

\* Mutant of AppendPart: the text is joined to the item's last part.
AppendPart_Joined(items, k, text) ==
    [items EXCEPT ![k].content =
        [@ EXCEPT ![Len(@)] = @ \o text]]

\* content.append(text) on the item at index k
AppendPart(items, k, text) ==
    [items EXCEPT ![k].content = Append(@, text)]

\* chat_ctx.add_message(role="system", content=wrapped, extra={...})
AddContextMessage(items, id, text) ==
    Append(items, ChatItem(id, "message", TRUE, <<ContextPrefix \o text>>))

(***************************************************************************)
(* The synchronous part of apply_context, from taking the lock to its     *)
(* first await or return, as a function of the agent's chat context.       *)
(*   next = "copy_error" | "await_clear" | "full" | "add_error" |          *)
(*          "await_set"                                                    *)
(***************************************************************************)
Prepared(next, local, mode, text, chars, msgId, appended, truncated) ==
    [next |-> next, local |-> local, mode |-> mode, text |-> text, chars |-> chars,
     msgId |-> msgId, appended |-> appended, truncated |-> truncated]

ApplyContextPrepare(ctx, rawText, rawMode, newId, copyFails, addFails) ==
    LET text0 == Strip(rawText)
        mode == NormMode(rawMode)
        kept == IF mode = "replace" THEN RemoveContextItems(ctx) ELSE ctx
        text == ClipText(kept, text0)
        existing == IF mode = "append" THEN find_last_context_message(kept) ELSE 0
    IN  IF copyFails
        THEN Prepared("copy_error", <<>>, mode, text0, 0, 0, FALSE, FALSE)
        ELSE IF text0 = <<>>
        THEN Prepared("await_clear", kept, mode, text0, 0, 0, FALSE, FALSE)
        ELSE IF ContextFull(kept)
        THEN Prepared("full", kept, mode, text0, context_total_chars(kept), 0, FALSE, FALSE)
        ELSE IF existing # 0
        THEN Prepared("await_set", AppendPart(kept, existing, text), mode, text,
                      Len(text), kept[existing].id, TRUE, Truncated(kept, text0))
        ELSE IF addFails
        THEN Prepared("add_error", kept, mode, text, Len(text), 0, FALSE,
                      Truncated(kept, text0))
        ELSE Prepared("await_set", AddContextMessage(kept, newId, text), mode, text,
                      Len(text), newId, FALSE, Truncated(kept, text0))

\* The synchronous part of clear_context.
ClearContextPrepare(ctx, copyFails) ==
    IF copyFails
    THEN Prepared("copy_error", <<>>, "", <<>>, 0, 0, FALSE, FALSE)
    ELSE Prepared("await_clear", RemoveContextItems(ctx), "", <<>>, 0, 0, FALSE, FALSE)

(***************************************************************************)
(* Events (the payloads given to schedule_publish).  req is the index of   *)
(* the task that scheduled the event, 0 for on_data_received itself; tries *)
(* counts the calls of publish_data for the event and sent tells that one  *)
(* of them returned.                                                       *)
(***************************************************************************)
Event(name, req, message, data) ==
    [event |-> name, req |-> req, message |-> message, data |-> data,
     tries |-> 0, sent |-> FALSE]

NoData == [mode |-> "", chars |-> 0, id |-> 0, appended |-> FALSE,
           truncated |-> FALSE, max_chars |-> 0, total_chars |-> 0]

ContextErrorEvent(req, message) == Event("context_error", req, message, NoData)

ContextFullEvent(req, chars) ==
    Event("context_error", req, "Context is full (max chars reached)",
          [NoData EXCEPT !.max_chars = MAX_CONTEXT_CHARS, !.chars = chars])

ContextClearedEvent(req, mode) ==
    Event("context_cleared", req, "", [NoData EXCEPT !.mode = mode])

ContextSetEvent(req, p) ==
    Event("context_set", req, "",
          [mode |-> p.mode, chars |-> Len(p.text), id |-> p.msgId,
           appended |-> p.appended, truncated |-> p.truncated,
           max_chars |-> MAX_CONTEXT_CHARS,
           total_chars |-> context_total_chars(p.local)])

\* schedule_publish(payload)
schedule_publish(evs, payload) == Append(evs, payload)


(***************************************************************************)
(* agent.py: packets.  An identity is <<>> (no participant, or an empty    *)
(* identity) or <<prefix, name>>.  The payload is the decoded, stripped    *)
(* text: blank, not JSON, JSON that is no object, or a JSON object with    *)
(* its "type", "op", "text" and "mode" members.                            *)
(***************************************************************************)
CONTROL_DATA_TOPIC == "owui.voice.control"
DEBUG_DATA_TOPIC == "owui.voice"

Topics == {CONTROL_DATA_TOPIC, DEBUG_DATA_TOPIC}

NoIdentity == <<>>
UserIdentity == <<"owui:", "u1">>
GuestIdentity == <<"guest:", "g1">>
Identities == {NoIdentity, UserIdentity, GuestIdentity}

OpInputs == {"context_set", "CONTEXT_SET", "context_clear", " context_clear ", "context_get", ""}
ModeInputs == {"replace", "append", "APPEND", "merge", ""}

Payload(kind, marker, type, op, text, mode) ==
    [kind |-> kind, marker |-> marker, type |-> type, op |-> op, text |-> text, mode |-> mode]

\* Every text in both modes, and single probes of the other spellings.
Payloads ==
    { Payload("blank", FALSE, "", "", <<>>, "") }
    \cup { Payload("not_json", m, "", "", <<>>, "") : m \in BOOLEAN }
    \cup { Payload("json_list", TRUE, "", "", <<>>, "") }
    \cup { Payload("json_object", FALSE, "owui.voice.event", "context_clear", <<>>, "") }
    \cup { Payload("json_object", TRUE, "owui.voice.control", op, <<>>, "") :
             op \in OpInputs \ {"context_set", "CONTEXT_SET"} }
    \cup { Payload("json_object", TRUE, "owui.voice.control", "context_set", t, m) :
             t \in TextInputs, m \in {"replace", "append"} }
    \cup { Payload("json_object", TRUE, "owui.voice.control", "CONTEXT_SET", Letters(1), m) :
             m \in ModeInputs \ {"replace", "append"} }

Packet(topic, identity, payload) ==
    [topic |-> topic, identity |-> identity, payload |-> payload]

Packets == { Packet(t, i, p) : t \in Topics, i \in Identities, p \in Payloads }

\* Mutant of WrongTopic: the topic check is missing.
WrongTopic_Never(packet) == FALSE

\* if packet.topic != CONTROL_DATA_TOPIC
WrongTopic(packet) == packet.topic # CONTROL_DATA_TOPIC

\* "owui.voice.control" in raw
LooksLikeControl(payload) == payload.marker

\* Mutant of RejectedSender: the identity check is missing.
RejectedSender_Never(identity) == FALSE

\* if sender_identity and not sender_identity.startswith("owui:")
RejectedSender(identity) == identity # <<>> /\ ~StartsWith(identity, "owui:")

NoPrep == Prepared("", <<>>, "", <<>>, 0, 0, FALSE, FALSE)

\* Mutant of NewTask: the handler runs inside the callback instead of in a
\* task of its own, and is inside its apply when the callback returns.
NewTask_Inline(op, text, mode) ==
    [op |-> op, text |-> text, mode |-> mode, raw |-> text,
     pc |-> "applying", prep |-> NoPrep, next |-> "", applied |-> FALSE]

\* asyncio.create_task(apply_context(...)) / asyncio.create_task(clear_context(...)).
\* text and mode are the coroutine's arguments, which it reassigns; prep holds
\* its other locals while it runs; next is how its locked section went and
\* applied whether update_chat_ctx returned.
NewTask(op, text, mode) ==
    [op |-> op, text |-> text, mode |-> mode, raw |-> text,
     pc |-> "created", prep |-> NoPrep, next |-> "", applied |-> FALSE]

\* Mutant of Route: a payload that is not JSON is dropped without an event.
Route_BadJsonIgnored(packet) ==
    LET op == LowerStrip(packet.payload.op)
    IN  IF CONTROL_DATA_TOPIC = "" THEN "ignore"
        ELSE IF packet.payload.kind = "blank" THEN "ignore"
        ELSE IF WrongTopic(packet)
        THEN (IF LooksLikeControl(packet.payload) THEN "warn_topic" ELSE "ignore")
        ELSE IF RejectedSender(packet.identity) THEN "warn_sender"
        ELSE IF packet.payload.kind # "json_object"
                \/ packet.payload.type # "owui.voice.control" THEN "ignore"
        ELSE IF op = "context_set" THEN "context_set"
        ELSE IF op = "context_clear" THEN "context_clear"
        ELSE "unknown_op"

\* on_data_received(packet): what the packet is answered with.
\*   "ignore" | "warn_topic" | "warn_sender" | "bad_json" | "context_set" |
\*   "context_clear" | "unknown_op"
Route(packet) ==
    LET op == LowerStrip(packet.payload.op)
    IN  IF CONTROL_DATA_TOPIC = "" THEN "ignore"
        ELSE IF packet.payload.kind = "blank" THEN "ignore"
        ELSE IF WrongTopic(packet)
        THEN (IF LooksLikeControl(packet.payload) THEN "warn_topic" ELSE "ignore")
        ELSE IF RejectedSender(packet.identity) THEN "warn_sender"
        ELSE IF packet.payload.kind = "not_json" THEN "bad_json"
        ELSE IF packet.payload.kind # "json_object"
                \/ packet.payload.type # "owui.voice.control" THEN "ignore"
        ELSE IF op = "context_set" THEN "context_set"
        ELSE IF op = "context_clear" THEN "context_clear"
        ELSE "unknown_op"

\* The packet is a well-formed context_set / context_clear control message.
WellFormedControl(payload) ==
    /\ payload.kind = "json_object"
    /\ payload.type = "owui.voice.control"
    /\ LowerStrip(payload.op) \in {"context_set", "context_clear"}

\* What is remembered of the last packet: its sender, its topic, whether it
\* was a well-formed control message, and the branch that answered it (the
\* two warnings are the branches "warn_topic" and "warn_sender").
Handled(packet) ==
    [topic |-> packet.topic, identity |-> packet.identity, kind |-> packet.payload.kind,
     control |-> WellFormedControl(packet.payload), route |-> Route(packet)]

NoPacket == [topic |-> "", identity |-> <<>>, kind |-> "", control |-> FALSE, route |-> ""]

on_data_received(packet) ==
    /\ delivered < MaxPackets
    /\ delivered' = delivered + 1
    /\ last' = Handled(packet)
    /\ LET route == Route(packet)
           mode == LowerStrip(IF packet.payload.mode = "" THEN "replace"
                              ELSE packet.payload.mode)
       IN  /\ tasks' =
                 CASE route = "context_set" ->
                        Append(tasks, NewTask("context_set", packet.payload.text, mode))
                   [] route = "context_clear" ->
                        Append(tasks, NewTask("context_clear", <<>>, ""))
                   [] OTHER -> tasks
           /\ events' =
                 CASE route = "bad_json" ->
                        schedule_publish(events,
                            ContextErrorEvent(0, "Invalid JSON control payload"))
                   [] route = "unknown_op" ->
                        schedule_publish(events, ContextErrorEvent(0, "Unknown control op"))
                   [] OTHER -> events
    /\ UNCHANGED <<chat_ctx, lockHolder, waiters, session>>
    /\ UNCHANGED portalVars

(***************************************************************************)
(* agent.py: the tasks.  The event loop starts tasks in creation order;    *)
(* asyncio.Lock wakes its waiters first come first, and a task that finds  *)
(* the lock free and nobody waiting takes it without yielding.             *)
(***************************************************************************)
TaskIds == 1..Len(tasks)

\* Mutant of LockFree: the lock is taken without looking at its holder.
LockFree_IgnoresHolder == waiters = <<>>

\* The lock can be taken at once: async with context_lock
LockFree == lockHolder = 0 /\ waiters = <<>>

\* The task runs from taking the lock to its first await or its return.
RunLocked(i, copyFails, addFails) ==
    LET t == tasks[i]
        p == IF t.op = "context_set"
             THEN ApplyContextPrepare(chat_ctx, t.text, t.mode, i, copyFails, addFails)
             ELSE ClearContextPrepare(chat_ctx, copyFails)
        awaits == p.next \in {"await_clear", "await_set"}
    IN  /\ tasks' = [tasks EXCEPT ![i].prep = IF awaits THEN p ELSE NoPrep,
                                  ![i].text = p.text,
                                  ![i].mode = p.mode,
                                  ![i].next = p.next,
                                  ![i].pc = IF awaits THEN "applying" ELSE "done"]
        /\ lockHolder' = IF awaits THEN i ELSE 0
        /\ events' =
              CASE p.next = "copy_error" /\ t.op = "context_set" ->
                     schedule_publish(events,
                         ContextErrorEvent(i, "Failed to access chat context"))
                [] p.next = "copy_error" /\ t.op = "context_clear" ->
                     schedule_publish(events, ContextClearedEvent(i, ""))
                [] p.next = "full" ->
                     schedule_publish(events, ContextFullEvent(i, p.chars))
                [] p.next = "add_error" ->
                     schedule_publish(events, ContextErrorEvent(i, "Failed to add context"))
                [] OTHER -> events

\* A created task is scheduled: it takes the lock or queues for it.
TaskStart(i, copyFails, addFails) ==
    /\ i \in TaskIds
    /\ tasks[i].pc = "created"
    /\ \A j \in 1..(i - 1) : tasks[j].pc # "created"
    /\ IF LockFree
       THEN /\ RunLocked(i, copyFails, addFails)
            /\ UNCHANGED waiters
       ELSE /\ tasks' = [tasks EXCEPT ![i].pc = "waiting"]
            /\ waiters' = Append(waiters, i)
            /\ UNCHANGED <<lockHolder, events>>
    /\ UNCHANGED <<chat_ctx, delivered, last, session>>
    /\ UNCHANGED portalVars

\* Mutant of LockReleased: a waiter runs while the lock is still held.
LockReleased_Always == TRUE

\* release() has run: the first waiter may go on.
LockReleased == lockHolder = 0

\* The first waiter is woken by the release of the lock.
TaskWake(i, copyFails, addFails) ==
    /\ LockReleased
    /\ waiters # <<>>
    /\ i = Head(waiters)
    /\ waiters' = Tail(waiters)
    /\ RunLocked(i, copyFails, addFails)
    /\ UNCHANGED <<chat_ctx, delivered, last, session>>
    /\ UNCHANGED portalVars

\* Mutant of AfterApply: the return after a failed apply is missing.
AfterApply_NoReturn(i, t, ok) ==
    IF t.op = "context_clear" THEN <<ContextClearedEvent(i, "")>>
    ELSE IF t.next = "await_clear" THEN <<ContextClearedEvent(i, t.prep.mode)>>
    ELSE IF ~ok THEN <<ContextErrorEvent(i, "Failed to apply context to session"),
                       ContextSetEvent(i, t.prep)>>
    ELSE <<ContextSetEvent(i, t.prep)>>

\* What task i schedules once update_chat_ctx has returned (ok) or raised.
AfterApply(i, t, ok) ==
    IF t.op = "context_clear" THEN <<ContextClearedEvent(i, "")>>
    ELSE IF t.next = "await_clear" THEN <<ContextClearedEvent(i, t.prep.mode)>>
    ELSE IF ~ok THEN <<ContextErrorEvent(i, "Failed to apply context to session")>>
    ELSE <<ContextSetEvent(i, t.prep)>>

\* Mutant of ApplyDone: a task whose apply raised keeps the lock.
ApplyDone_KeepsLock(i, ok) ==
    /\ i \in TaskIds
    /\ tasks[i].pc = "applying"
    /\ chat_ctx' = IF ok THEN tasks[i].prep.local ELSE chat_ctx
    /\ events' = events \o AfterApply(i, tasks[i], ok)
    /\ tasks' = [tasks EXCEPT ![i].pc = "done", ![i].applied = ok, ![i].prep = NoPrep]
    /\ lockHolder' = IF ok THEN 0 ELSE i
    /\ UNCHANGED <<waiters, delivered, last, session>>
    /\ UNCHANGED portalVars

\* await voice_agent.update_chat_ctx(chat_ctx) returns (ok) or raises; the
\* task then schedules its event and leaves the lock.
ApplyDone(i, ok) ==
    /\ i \in TaskIds
    /\ tasks[i].pc = "applying"
    /\ chat_ctx' = IF ok THEN tasks[i].prep.local ELSE chat_ctx
    /\ events' = events \o AfterApply(i, tasks[i], ok)
    /\ tasks' = [tasks EXCEPT ![i].pc = "done", ![i].applied = ok, ![i].prep = NoPrep]
    /\ lockHolder' = 0
    /\ UNCHANGED <<waiters, delivered, last, session>>
    /\ UNCHANGED portalVars

\* No job has started the session yet, or its options are not looked at.
NoSession == [started |-> FALSE, kwargs |-> <<>>]

\* The session after entrypoint has built it; the portal is not running.
AgentInit ==
    /\ chat_ctx = <<>>
    /\ tasks = <<>>
    /\ events = <<>>
    /\ lockHolder = 0
    /\ waiters = <<>>
    /\ delivered = 0
    /\ last = NoPacket
    /\ session = NoSession
    /\ roomExists = FALSE
    /\ roomMeta = <<>>
    /\ participants = {}
    /\ dispatches = <<>>
    /\ nextDispatch = 1
    /\ reqs = <<>>

AgentNext ==
    \/ \E packet \in Packets : on_data_received(packet)
    \/ \E i \in TaskIds, copyFails, addFails \in BOOLEAN : TaskStart(i, copyFails, addFails)
    \/ \E i \in TaskIds, copyFails, addFails \in BOOLEAN : TaskWake(i, copyFails, addFails)
    \/ \E i \in TaskIds, ok \in BOOLEAN : ApplyDone(i, ok)

AgentSpec == AgentInit /\ [][AgentNext]_vars

(***************************************************************************)
(* agent.py: publishing.  schedule_publish creates one task per event,     *)
(* which calls publish_data once; the exception of a failed call is only   *)
(* logged.  The probes are one packet of every branch of on_data_received, *)
(* all but the last two from the control topic's authorised sender.        *)
(***************************************************************************)
DEBUG_DATA_ENABLED == TRUE

Control(op, text, mode) ==
    Payload("json_object", TRUE, "owui.voice.control", op, text, mode)

ProbePackets ==
    { Packet(CONTROL_DATA_TOPIC, UserIdentity, p) :
        p \in { Payload("blank", FALSE, "", "", <<>>, ""),
                Payload("not_json", TRUE, "", "", <<>>, ""),
                Payload("json_object", FALSE, "owui.voice.event", "context_clear", <<>>, ""),
                Control("context_get", <<>>, ""),
                Control("context_set", Letters(2), "append"),
                Control("context_clear", <<>>, "") } }
    \cup { Packet(DEBUG_DATA_TOPIC, UserIdentity, Control("context_clear", <<>>, "")),
           Packet(CONTROL_DATA_TOPIC, GuestIdentity, Control("context_clear", <<>>, "")) }

\* Mutant of PublishDue: an event whose publish_data raised is sent again.
PublishDue_Retry(e) == ~e.sent

\* The task schedule_publish created for the event has not run yet.
PublishDue(e) == e.tries = 0

\* publish_debug_event(payload): publish_data returns (ok) or raises.
publish_debug_event(k, ok) ==
    /\ DEBUG_DATA_ENABLED /\ DEBUG_DATA_TOPIC # ""
    /\ k \in 1..Len(events)
    /\ PublishDue(events[k])
    /\ events' = [events EXCEPT ![k].tries = @ + 1, ![k].sent = ok]
    /\ UNCHANGED <<chat_ctx, tasks, lockHolder, waiters, delivered, last, session>>
    /\ UNCHANGED portalVars

Starts == \E i \in TaskIds, copyFails, addFails \in BOOLEAN : TaskStart(i, copyFails, addFails)

Wakes == \E i \in TaskIds, copyFails, addFails \in BOOLEAN : TaskWake(i, copyFails, addFails)

Applies == \E i \in TaskIds, ok \in BOOLEAN : ApplyDone(i, ok)

Publishes == \E k \in 1..Len(events), ok \in BOOLEAN : publish_debug_event(k, ok)

TelemetryNext ==
    \/ \E packet \in ProbePackets : on_data_received(packet)
    \/ Starts
    \/ Wakes
    \/ Applies
    \/ Publishes

\* The event loop runs every task that can run, and update_chat_ctx and
\* publish_data come back.
TelemetrySpec ==
    /\ AgentInit
    /\ [][TelemetryNext]_vars
    /\ WF_vars(Starts) /\ WF_vars(Wakes) /\ WF_vars(Applies) /\ WF_vars(Publishes)

(***************************************************************************)
(* agent.py: the conversation.  The session pipeline adds the items of the *)
(* dialogue (messages, function calls) to voice_agent.chat_ctx at any      *)
(* time; they carry no "owui_livekit_context" tag.                         *)
(***************************************************************************)
DialogueItems(items) == SelectSeq(items, LAMBDA item : ~item.tagged)

DialogueTypes == {"message", "function_call"}

PipelineAdd(type) ==
    /\ Len(DialogueItems(chat_ctx)) < MaxDialogue
    /\ chat_ctx' = Append(chat_ctx,
                          ChatItem(0 - (Len(DialogueItems(chat_ctx)) + 1), type, FALSE,
                                   <<Letters(1)>>))
    /\ UNCHANGED <<tasks, events, lockHolder, waiters, delivered, last, session>>
    /\ UNCHANGED portalVars

DialoguePackets ==
    { Packet(CONTROL_DATA_TOPIC, UserIdentity, p) :
        p \in { Control("context_set", Letters(1), "replace"),
                Control("context_set", Letters(1), "append"),
                Control("context_set", <<>>, "append"),
                Control("context_clear", <<>>, "") } }

DialogueNext ==
    \/ \E packet \in DialoguePackets : on_data_received(packet)
    \/ Starts
    \/ Wakes
    \/ Applies
    \/ \E type \in DialogueTypes : PipelineAdd(type)

DialogueSpec == AgentInit /\ [][DialogueNext]_vars


(***************************************************************************)
(* portal.py: the voice settings and the room metadata.  An optional       *)
(* parameter is <<>> (None) or <<value>>.  The settings are the set of     *)
(* their (key, value) pairs; a metadata string is <<>> for "" and          *)
(* otherwise <<"owui_voice", pairs in key order>>.                         *)
(***************************************************************************)
None == <<>>
Some(v) == <<v>>

\* llm_model.strip().lower() / turn_detection.strip().lower()
Lowered(s) ==
    CASE s = " Multilingual " -> "multilingual"
      [] s = "ML" -> "ml"
      [] s = "STT" -> "stt"
      [] s = " GLM-4.6 " -> "glm-4.6"
      [] s = " " -> ""
      [] OTHER -> s

RawSettings(llm, td, allow, minDelay, maxDelay, minDuration, minWords, voice) ==
    [llm_model |-> llm, turn_detection |-> td, allow_interruptions |-> allow,
     min_endpointing_delay |-> minDelay, max_endpointing_delay |-> maxDelay,
     min_interruption_duration |-> minDuration, min_interruption_words |-> minWords,
     tts_voice |-> voice]

\* len(normalized_tts_voice) > 256
TTS_VOICE_MAX == 256

\* Mutant of SettingsError: the endpointing delays are not compared.
SettingsError_NoDelayCheck(raw) ==
    IF /\ raw.turn_detection # None
       /\ raw.turn_detection[1] # ""
       /\ Lowered(raw.turn_detection[1]) \notin {"ml", "multilingual", "stt"}
    THEN "Invalid turn_detection"
    ELSE ""

\* Mutant of SettingsError: no value is refused.
SettingsError_None(raw) == ""

\* _build_voice_settings: the reason it raises HTTPException(400), "" if none.
SettingsError(raw) ==
    IF /\ raw.llm_model # None
       /\ Lowered(raw.llm_model[1]) # ""
       /\ Lowered(raw.llm_model[1]) \notin
            {"4.6", "glm4.6", "glm-4.6", "zai-glm-4.6", "4.7", "glm4.7", "glm-4.7", "zai-glm-4.7"}
    THEN "Invalid llm_model"
    ELSE IF /\ raw.turn_detection # None
            /\ raw.turn_detection[1] # ""
            /\ Lowered(raw.turn_detection[1]) \notin {"ml", "multilingual", "stt"}
    THEN "Invalid turn_detection"
    ELSE IF /\ raw.tts_voice # None
            /\ Len(Strip(raw.tts_voice[1])) > TTS_VOICE_MAX
    THEN "tts_voice is too long"
    ELSE IF /\ raw.min_endpointing_delay # None
            /\ raw.max_endpointing_delay # None
            /\ raw.min_endpointing_delay[1] > raw.max_endpointing_delay[1]
    THEN "Invalid endpointing delays"
    ELSE ""

\* voice_settings[key] = value if the parameter is given
Given(key, tag, param) == IF param # None THEN {<<key, <<tag, param[1]>> >>} ELSE {}

\* Mutant of BuildVoiceSettings: turn_detection is stored as it was spelled,
\* in lower case.
BuildVoiceSettings_AsSpelled(raw) ==
    (IF raw.turn_detection # None /\ raw.turn_detection[1] # ""
     THEN {<<"turn_detection", <<"str", Lowered(raw.turn_detection[1])>> >>}
     ELSE {})
    \cup Given("min_endpointing_delay", "num", raw.min_endpointing_delay)
    \cup Given("max_endpointing_delay", "num", raw.max_endpointing_delay)

\* _build_voice_settings: the dictionary it returns.
BuildVoiceSettings(raw) ==
    (IF raw.llm_model # None /\ Lowered(raw.llm_model[1]) # ""
     THEN {<<"llm_model",
             <<"str", IF Lowered(raw.llm_model[1]) \in {"4.6", "glm4.6", "glm-4.6", "zai-glm-4.6"}
                      THEN "zai-glm-4.6" ELSE "zai-glm-4.7">> >>}
     ELSE {})
    \cup
    (IF raw.turn_detection # None /\ raw.turn_detection[1] # ""
     THEN {<<"turn_detection",
             <<"str", IF Lowered(raw.turn_detection[1]) \in {"ml", "multilingual"}
                      THEN "ml" ELSE "stt">> >>}
     ELSE {})
    \cup Given("allow_interruptions", "bool", raw.allow_interruptions)
    \cup Given("min_endpointing_delay", "num", raw.min_endpointing_delay)
    \cup Given("max_endpointing_delay", "num", raw.max_endpointing_delay)
    \cup Given("min_interruption_duration", "num", raw.min_interruption_duration)
    \cup Given("min_interruption_words", "num", raw.min_interruption_words)
    \cup
    (IF raw.tts_voice # None /\ Strip(raw.tts_voice[1]) # <<>>
     THEN {<<"tts_voice", <<"chars", Strip(raw.tts_voice[1])>> >>}
     ELSE {})

\* json.dumps(..., sort_keys=True): the keys in sorted order.
SortedKeys ==
    <<"allow_interruptions", "llm_model", "max_endpointing_delay", "min_endpointing_delay",
      "min_interruption_duration", "min_interruption_words", "tts_voice", "turn_detection">>

RECURSIVE DumpPairs(_, _)
DumpPairs(settings, keys) ==
    IF keys = <<>> THEN <<>>
    ELSE LET here == { kv \in settings : kv[1] = Head(keys) }
         IN  (IF here = {} THEN <<>> ELSE <<CHOOSE kv \in here : TRUE>>)
             \o DumpPairs(settings, Tail(keys))

\* metadata = json.dumps({"owui_voice": voice_settings}, ...) if voice_settings else ""
EncodeMetadata(settings) ==
    IF settings = {} THEN <<>> ELSE <<"owui_voice", DumpPairs(settings, SortedKeys)>>

\* Mutant of parse_room_voice_settings: the settings are never found.
parse_room_voice_settings_Empty(room_metadata) == {}

\* agent.py, _parse_room_voice_settings: {} for a blank string, for what is
\* no JSON object and for an object without a dictionary "owui_voice",
\* otherwise that dictionary.
parse_room_voice_settings(room_metadata) ==
    IF room_metadata = <<>> THEN {}
    ELSE IF room_metadata[1] # "owui_voice" THEN {}
    ELSE { room_metadata[2][k] : k \in 1..Len(room_metadata[2]) }

\* The query parameters the requests of the model carry.
NoSettings == RawSettings(None, None, None, None, None, None, None, None)

SettingsInputs ==
    { NoSettings,
      RawSettings(Some("4.6"), Some("ml"), Some(TRUE), Some(1), Some(2), Some(1), Some(2),
                  Some(<<"v">>)),
      RawSettings(Some(" GLM-4.6 "), Some(" Multilingual "), Some(TRUE), Some(1), Some(2),
                  Some(1), Some(2), Some(<<" ", "v", " ">>)),
      RawSettings(Some(" "), Some(""), None, None, None, None, None, Some(<<" ">>)),
      [NoSettings EXCEPT !.llm_model = Some("gpt-4")],
      [NoSettings EXCEPT !.turn_detection = Some("xyz")],
      [NoSettings EXCEPT !.turn_detection = Some(" ")],
      [NoSettings EXCEPT !.tts_voice = Some([n \in 1..(TTS_VOICE_MAX + 1) |-> "v"])],
      [NoSettings EXCEPT !.min_endpointing_delay = Some(2), !.max_endpointing_delay = Some(1)] }

(***************************************************************************)
(* portal.py: names, identities and credentials.                           *)
(***************************************************************************)
AGENT_NAME == "owui-voice"

\* f"{ROOM_PREFIX}-"
RoomPrefix == <<"o","w","u","i","-","v","o","i","c","e","-">>

\* The one room of the model, a name uuid4 yields, and names that are refused.
TheRoom == RoomPrefix \o <<"1">>
FreshRoom == RoomPrefix \o <<"9","f">>
RoomInputs == { <<>>, <<" ">>, TheRoom, TheRoom \o <<" ">>,
                <<"l","o","b","b","y","-","1">>, RoomPrefix \o <<"1","/","2">> }

\* [a-zA-Z0-9_-]
RoomNameChars ==
    {"a","b","c","d","e","f","g","h","i","j","k","l","m","n","o","p","q","r","s","t",
     "u","v","w","x","y","z","A","B","C","D","E","F","G","H","I","J","K","L","M","N",
     "O","P","Q","R","S","T","U","V","W","X","Y","Z",
     "0","1","2","3","4","5","6","7","8","9","_","-"}

\* ROOM_NAME_RE.fullmatch(room_name)
MatchesRoomNameRe(name) ==
    /\ Len(name) >= 1
    /\ Len(name) <= 128
    /\ \A k \in 1..Len(name) : name[k] \in RoomNameChars

\* room_name.startswith(f"{ROOM_PREFIX}-")
HasRoomPrefix(name) ==
    /\ Len(name) >= Len(RoomPrefix)
    /\ SubSeq(name, 1, Len(RoomPrefix)) = RoomPrefix

\* The Authorization header: absent, not a Bearer header, a token that does
\* not decode under the secret, one that decodes without "id", a valid one.
AuthInputs == {"missing", "basic", "undecodable", "no_id", "valid"}

\* Mutant of Unauthorized: only the missing header is refused.
Unauthorized_OnlyMissing(auth) == auth = "missing"

\* if not authorization or not authorization.startswith("Bearer ") ... 401
\* if not decoded or "id" not in decoded ... 401
Unauthorized(auth) == auth # "valid"

\* The user whose token the requests carry, and the identities in the room.
Caller == "u1"
CallerIdentity(user) == <<"owui:", user>>
OtherHuman == <<"owui:", "u2">>
AgentParticipant == <<"agent-", "AJ_1">>
Visitors == {CallerIdentity(Caller), OtherHuman, AgentParticipant}

IsAgentIdentity(identity) == StartsWith(identity, "agent-")

\* Mutant of has_non_agent: nobody counts as a human.
has_non_agent_Never(people) == FALSE

\* Mutant of has_non_agent: the caller is left out, as /apply does.
has_non_agent_ButCaller(people) ==
    \E q \in people : ~IsAgentIdentity(q) /\ q # CallerIdentity(Caller)

\* token: any(not str(p.identity).startswith("agent-") for p in participants)
has_non_agent(people) == \E q \in people : ~IsAgentIdentity(q)

\* Mutant of other_humans: the caller counts as another human.
other_humans_WithCaller(people, user) == { q \in people : ~IsAgentIdentity(q) }

\* apply: the identities that are neither an agent's nor the caller's
other_humans(people, user) ==
    { q \in people : ~IsAgentIdentity(q) /\ q # CallerIdentity(user) }

(***************************************************************************)
(* The LiveKit server: dispatches and their jobs.  A job holds the room    *)
(* metadata it was started with.                                           *)
(***************************************************************************)
\* The name of an agent that is not this portal's.
OTHER_AGENT == "other-agent"

Dispatch(id, agent, jobs) == [id |-> id, agent_name |-> agent, jobs |-> jobs]

\* Mutant of AgentDispatches: the dispatches of every agent are taken.
AgentDispatches_All(ds) == ds

\* [d for d in dispatches if getattr(d, "agent_name", None) == AGENT_NAME]
AgentDispatches(ds) == SelectSeq(ds, LAMBDA d : d.agent_name = AGENT_NAME)

\* Mutant of restart_needed: a room without dispatch needs no restart and
\* the jobs are compared with the empty metadata.
restart_needed_Wrong(agent_dispatches, metadata) ==
    \E k \in 1..Len(agent_dispatches) :
        \E n \in 1..Len(agent_dispatches[k].jobs) :
            agent_dispatches[k].jobs[n] # <<>>

\* Mutant of restart_needed: a room without dispatch of the agent is left so.
restart_needed_IfJobsDiffer(agent_dispatches, metadata) ==
    \E k \in 1..Len(agent_dispatches) :
        \E n \in 1..Len(agent_dispatches[k].jobs) :
            agent_dispatches[k].jobs[n] # metadata

\* token: restart_needed
restart_needed(agent_dispatches, metadata) ==
    IF agent_dispatches = <<>> THEN TRUE
    ELSE \E k \in 1..Len(agent_dispatches) :
            \E n \in 1..Len(agent_dispatches[k].jobs) :
                agent_dispatches[k].jobs[n] # metadata

Ids(ds) == [k \in 1..Len(ds) |-> ds[k].id]

\* Mutant of WithoutDispatch: the call returns and the dispatch is still there.
WithoutDispatch_None(ds, id) == ds

\* lk.agent_dispatch.delete_dispatch(id, room_name)
WithoutDispatch(ds, id) == SelectSeq(ds, LAMBDA d : d.id # id)

(***************************************************************************)
(* portal.py: the /token and /apply handlers.  A handler runs from one     *)
(* await on the LiveKit server to the next; every call may fail (ok =      *)
(* FALSE).  Besides the handler's locals a request records what the room   *)
(* looked like when it asked (fresh, occupied), how many dispatches it     *)
(* deleted and whether it created one, the parameters it came with (call), *)
(* the calls it made to the server (calls) and the one that failed.        *)
(***************************************************************************)
Slots == {1, 2}

\* The requests sent: every credential and every room name with the default
\* settings, every settings body for the room in use.
Request(kind, auth, room, raw, force) ==
    [kind |-> kind, auth |-> auth, room |-> room, raw |-> raw, force |-> force]

RequestInputs ==
    { Request(kind, auth, TheRoom, NoSettings, FALSE) :
          kind \in {"token", "apply"}, auth \in AuthInputs }
    \cup { Request(kind, "valid", room, NoSettings, FALSE) :
          kind \in {"token", "apply"}, room \in RoomInputs }
    \cup { Request("token", "valid", TheRoom, raw, FALSE) : raw \in SettingsInputs }
    \cup { Request("apply", "valid", TheRoom, raw, force) :
          raw \in SettingsInputs, force \in BOOLEAN }

\* No request.
NoCall == Request("", "", <<>>, NoSettings, FALSE)

IdleReq ==
    [kind |-> "", user |-> "", room |-> <<>>, force |-> FALSE, metadata |-> <<>>,
     pc |-> "idle", status |-> 0, listed |-> <<>>, todo |-> <<>>,
     fresh |-> FALSE, occupied |-> FALSE, deleted |-> 0, created |-> FALSE,
     call |-> NoCall, calls |-> <<>>, failed |-> ""]

\* The response: 200 is the token of /token and {"ok": True} of /apply.
Finish(req, status) ==
    [req EXCEPT !.pc = "done", !.status = status, !.todo = <<>>]

\* What /token answers when a server call raises: the token all the same.
\* What /apply answers: 500.
\* Mutant of OnFailure: a failure of the server is an error of /token too.
OnFailure_Always500(req) == Finish([req EXCEPT !.failed = req.pc], 500)

\* Mutant of OnFailure: /apply too answers as if nothing had failed.
OnFailure_AlwaysOk(req) == Finish([req EXCEPT !.failed = req.pc], 200)

OnFailure(req) ==
    Finish([req EXCEPT !.failed = req.pc], IF req.kind = "token" THEN 200 ELSE 500)

\* The handler of the request calls the server: the call is named as the
\* position of the handler is.
Called(req) == [req EXCEPT !.calls = Append(@, req.pc)]

\* Mutant of Conflict: the conflict is reported as a failure of the substrate.
Conflict_AsFailure(req) == Finish(req, 500)

\* apply: raise HTTPException(status_code=409, ...), passed on by
\* "except HTTPException: raise"
Conflict(req) == Finish(req, 409)

\* room_name = (room or "").strip() and its checks: the status, 0 to go on.
RoomNameStatus(kind, room) ==
    LET name == Strip(room)
    IN  IF name = <<>> THEN (IF kind = "token" THEN 0 ELSE 400)
        ELSE IF ~MatchesRoomNameRe(name) \/ ~HasRoomPrefix(name) THEN 400
        ELSE 0

\* room_name = f"{ROOM_PREFIX}-{uuid.uuid4().hex}" when no room is given
RoomName(room) == IF Strip(room) = <<>> THEN FreshRoom ELSE Strip(room)

\* The handler up to its first await: authentication, room name, settings.
Begin(r, kind, auth, room, raw, force) ==
    /\ reqs[r].pc = "idle"
    /\ kind = "token" => ~force
    /\ LET status == IF Unauthorized(auth) THEN 401
                     ELSE IF RoomNameStatus(kind, room) # 0 THEN 400
                     ELSE IF SettingsError(raw) # "" THEN 400
                     ELSE 0
           req == [IdleReq EXCEPT !.kind = kind, !.user = Caller, !.force = force,
                                  !.call = Request(kind, auth, room, raw, force)]
       IN  reqs' = [reqs EXCEPT ![r] =
                IF status # 0 THEN Finish(req, status)
                ELSE [req EXCEPT !.room = RoomName(room),
                                 !.metadata = EncodeMetadata(BuildVoiceSettings(raw)),
                                 !.pc = "list_rooms"]]
    /\ UNCHANGED <<roomExists, roomMeta, participants, dispatches, nextDispatch>>
    /\ UNCHANGED agentVars

\* The room of the request is on the server.
Exists(req) == roomExists /\ req.room = TheRoom

\* Mutant of RoomNotFound: the missing room is a failure of the substrate.
RoomNotFound_AsFailure(req) == Finish(req, IF req.kind = "token" THEN 200 ELSE 500)

\* Mutant of RoomNotFound: the metadata is written whether or not the room
\* was found.
RoomNotFound_WritesAnyway(req) == [req EXCEPT !.pc = "update_room_metadata"]

\* if not existing.rooms: /apply raises HTTPException(404), /token goes on to
\* its return.
RoomNotFound(req) == Finish(req, IF req.kind = "token" THEN 200 ELSE 404)

\* existing = await lk.room.list_rooms(...)
ListRooms(r, ok) ==
    /\ reqs[r].pc = "list_rooms"
    /\ LET req == Called(reqs[r])
       IN  reqs' = [reqs EXCEPT ![r] =
                IF ~ok THEN OnFailure(req)
                ELSE IF ~Exists(req)
                THEN RoomNotFound(req)
                ELSE [req EXCEPT !.pc = "update_room_metadata"]]
    /\ UNCHANGED <<roomExists, roomMeta, participants, dispatches, nextDispatch>>
    /\ UNCHANGED agentVars

\* A dispatch of the agent has a job, and every job of the agent's
\* dispatches has started from this metadata.
ObservedBy(ds, metadata) ==
    /\ \E k \in 1..Len(ds) : ds[k].agent_name = AGENT_NAME /\ ds[k].jobs # <<>>
    /\ \A k \in 1..Len(ds) :
          ds[k].agent_name = AGENT_NAME =>
              \A n \in 1..Len(ds[k].jobs) : ds[k].jobs[n] = metadata

\* Somebody is in the room who is neither an agent nor the caller.
OccupiedFor(people, user) ==
    \E q \in people : q[1] # "agent-" /\ q # <<"owui:", user>>

\* Mutant of UpdateRoomMetadata: the call returns without having written.
UpdateRoomMetadata_NoWrite(r, ok) ==
    /\ reqs[r].pc = "update_room_metadata"
    /\ LET req == Called(reqs[r])
           done == ok /\ Exists(req)
       IN  /\ roomMeta' = roomMeta
           /\ reqs' = [reqs EXCEPT ![r] =
                IF ~done THEN OnFailure(req)
                ELSE [req EXCEPT !.fresh = (req.kind = "apply"
                                            /\ ObservedBy(dispatches, req.metadata)),
                                 !.pc = IF req.kind = "token" THEN "list_dispatch"
                                        ELSE "list_participants"]]
    /\ UNCHANGED <<roomExists, participants, dispatches, nextDispatch>>
    /\ UNCHANGED agentVars

\* await lk.room.update_room_metadata(...); /apply lists the participants
\* next, /token the dispatches.
UpdateRoomMetadata(r, ok) ==
    /\ reqs[r].pc = "update_room_metadata"
    /\ LET req == Called(reqs[r])
           done == ok /\ Exists(req)
       IN  /\ roomMeta' = IF done THEN req.metadata ELSE roomMeta
           /\ reqs' = [reqs EXCEPT ![r] =
                IF ~done THEN OnFailure(req)
                ELSE [req EXCEPT !.fresh = (req.kind = "apply"
                                            /\ ObservedBy(dispatches, req.metadata)),
                                 !.pc = IF req.kind = "token" THEN "list_dispatch"
                                        ELSE "list_participants"]]
    /\ UNCHANGED <<roomExists, participants, dispatches, nextDispatch>>
    /\ UNCHANGED agentVars

\* The restart itself: delete the listed dispatches, then create one.
Restart(req, ids) ==
    [req EXCEPT !.todo = ids, !.pc = IF ids = <<>> THEN "create_dispatch" ELSE "delete_dispatch"]

\* dispatches = await lk.agent_dispatch.list_dispatch(room_name=room_name)
ListDispatch(r, ok) ==
    /\ reqs[r].pc = "list_dispatch"
    /\ LET req == Called(reqs[r])
           mine == AgentDispatches(dispatches)
           seen == [req EXCEPT !.listed = Ids(mine)]
       IN  reqs' = [reqs EXCEPT ![r] =
                IF ~ok THEN OnFailure(req)
                ELSE IF req.kind = "apply" THEN Restart(seen, Ids(mine))
                ELSE IF ~restart_needed(mine, req.metadata)
                THEN Finish([seen EXCEPT !.fresh = ObservedBy(dispatches, req.metadata)], 200)
                ELSE [seen EXCEPT !.fresh = ObservedBy(dispatches, req.metadata),
                                  !.pc = "list_participants"]]
    /\ UNCHANGED <<roomExists, roomMeta, participants, dispatches, nextDispatch>>
    /\ UNCHANGED agentVars

\* participants = await lk.room.list_participants(...)
ListParticipants(r, ok) ==
    /\ reqs[r].pc = "list_participants"
    /\ LET req == Called(reqs[r])
           seen == [req EXCEPT !.occupied = OccupiedFor(participants, req.user)]
       IN  reqs' = [reqs EXCEPT ![r] =
                IF ~ok THEN OnFailure(req)
                ELSE IF req.kind = "token"
                THEN (IF has_non_agent(participants) THEN Finish(seen, 200)
                      ELSE Restart(seen, req.listed))
                ELSE (IF other_humans(participants, req.user) # {} /\ ~req.force
                      THEN Conflict(seen)
                      ELSE [seen EXCEPT !.pc = "list_dispatch"])]
    /\ UNCHANGED <<roomExists, roomMeta, participants, dispatches, nextDispatch>>
    /\ UNCHANGED agentVars

\* await lk.agent_dispatch.delete_dispatch(d.id, room_name)
DeleteDispatch(r, ok) ==
    /\ reqs[r].pc = "delete_dispatch"
    /\ LET req == Called(reqs[r])
           id == Head(req.todo)
       IN  /\ dispatches' = IF ok THEN WithoutDispatch(dispatches, id) ELSE dispatches
           /\ reqs' = [reqs EXCEPT ![r] =
                IF ~ok THEN OnFailure(req)
                ELSE [req EXCEPT !.deleted = @ + 1,
                                 !.todo = Tail(@),
                                 !.pc = IF Tail(req.todo) = <<>> THEN "create_dispatch"
                                        ELSE "delete_dispatch"]]
    /\ UNCHANGED <<roomExists, roomMeta, participants, nextDispatch>>
    /\ UNCHANGED agentVars

\* await lk.agent_dispatch.create_dispatch(CreateAgentDispatchRequest(...))
CreateDispatch(r, ok) ==
    /\ reqs[r].pc = "create_dispatch"
    /\ ok => nextDispatch <= MaxDispatches
    /\ LET req == Called(reqs[r])
           done == ok /\ Exists(req)
       IN  /\ dispatches' = IF done
                            THEN Append(dispatches, Dispatch(nextDispatch, AGENT_NAME, <<>>))
                            ELSE dispatches
           /\ nextDispatch' = IF done THEN nextDispatch + 1 ELSE nextDispatch
           /\ reqs' = [reqs EXCEPT ![r] =
                IF ~done THEN OnFailure(req)
                ELSE Finish([req EXCEPT !.created = TRUE], 200)]
    /\ UNCHANGED <<roomExists, roomMeta, participants>>
    /\ UNCHANGED agentVars

\* The response has been sent; the slot serves the next request.
Respond(r) ==
    /\ reqs[r].pc = "done"
    /\ reqs' = [reqs EXCEPT ![r] = IdleReq]
    /\ UNCHANGED <<roomExists, roomMeta, participants, dispatches, nextDispatch>>
    /\ UNCHANGED agentVars

(***************************************************************************)
(* The LiveKit server and the people around it.                            *)
(***************************************************************************)
\* The caller joins with the token of request r.  The first to join creates
\* the room from the token's room configuration: its metadata and one
\* dispatch of the agent.
JoinWithToken(r) ==
    /\ reqs[r].pc = "done"
    /\ reqs[r].kind = "token"
    /\ reqs[r].status = 200
    /\ reqs[r].room = TheRoom
    /\ CallerIdentity(reqs[r].user) \notin participants
    /\ ~roomExists => nextDispatch <= MaxDispatches
    /\ participants' = participants \cup {CallerIdentity(reqs[r].user)}
    /\ roomExists' = TRUE
    /\ roomMeta' = IF roomExists THEN roomMeta ELSE reqs[r].metadata
    /\ dispatches' = IF roomExists THEN dispatches
                     ELSE <<Dispatch(nextDispatch, AGENT_NAME, <<>>)>>
    /\ nextDispatch' = IF roomExists THEN nextDispatch ELSE nextDispatch + 1
    /\ UNCHANGED reqs
    /\ UNCHANGED agentVars

\* Another participant joins the room: the agent, or another user.
Join(q) ==
    /\ roomExists
    /\ q \in {OtherHuman, AgentParticipant}
    /\ q \notin participants
    /\ participants' = participants \cup {q}
    /\ UNCHANGED <<roomExists, roomMeta, dispatches, nextDispatch, reqs>>
    /\ UNCHANGED agentVars

Leave(q) ==
    /\ q \in participants
    /\ participants' = participants \ {q}
    /\ UNCHANGED <<roomExists, roomMeta, dispatches, nextDispatch, reqs>>
    /\ UNCHANGED agentVars

\* A worker takes the dispatch: its job starts from the room as it is now.
JobStart(k) ==
    /\ roomExists
    /\ k \in 1..Len(dispatches)
    /\ dispatches[k].jobs = <<>>
    /\ dispatches' = [dispatches EXCEPT ![k].jobs = <<roomMeta>>]
    /\ UNCHANGED <<roomExists, roomMeta, participants, nextDispatch, reqs>>
    /\ UNCHANGED agentVars

\* Somebody else dispatches an agent of another name to the room.
OtherAgentDispatch ==
    /\ roomExists
    /\ \A k \in 1..Len(dispatches) : dispatches[k].agent_name = AGENT_NAME
    /\ dispatches' = Append(dispatches, Dispatch(0, OTHER_AGENT, <<>>))
    /\ UNCHANGED <<roomExists, roomMeta, participants, nextDispatch, reqs>>
    /\ UNCHANGED agentVars

\* The empty room is closed by the server.
RoomClose ==
    /\ roomExists
    /\ participants = {}
    /\ roomExists' = FALSE
    /\ roomMeta' = <<>>
    /\ dispatches' = <<>>
    /\ UNCHANGED <<participants, nextDispatch, reqs>>
    /\ UNCHANGED agentVars

\* The portal is up, the room does not exist; no agent session is modelled.
PortalInit ==
    /\ roomExists = FALSE
    /\ roomMeta = <<>>
    /\ participants = {}
    /\ dispatches = <<>>
    /\ nextDispatch = 1
    /\ reqs = [r \in Slots |-> IdleReq]
    /\ chat_ctx = <<>>
    /\ tasks = <<>>
    /\ events = <<>>
    /\ lockHolder = 0
    /\ waiters = <<>>
    /\ delivered = 0
    /\ last = NoPacket
    /\ session = NoSession

\* PortalSpec serves one request at a time: a request begins when no other
\* is being served.
Serial(r) == \A o \in Slots \ {r} : reqs[o].pc = "idle"

PortalNext ==
    \/ \E r \in Slots, q \in RequestInputs :
            Serial(r) /\ Begin(r, q.kind, q.auth, q.room, q.raw, q.force)
    \/ \E r \in Slots, ok \in BOOLEAN : ListRooms(r, ok)
    \/ \E r \in Slots, ok \in BOOLEAN : UpdateRoomMetadata(r, ok)
    \/ \E r \in Slots, ok \in BOOLEAN : ListDispatch(r, ok)
    \/ \E r \in Slots, ok \in BOOLEAN : ListParticipants(r, ok)
    \/ \E r \in Slots, ok \in BOOLEAN : DeleteDispatch(r, ok)
    \/ \E r \in Slots, ok \in BOOLEAN : CreateDispatch(r, ok)
    \/ \E r \in Slots : Respond(r)
    \/ \E r \in Slots : JoinWithToken(r)
    \/ \E q \in Visitors : Join(q)
    \/ \E q \in Visitors : Leave(q)
    \/ \E k \in 1..Len(dispatches) : JobStart(k)
    \/ OtherAgentDispatch
    \/ RoomClose

PortalSpec == PortalInit /\ [][PortalNext]_vars

(***************************************************************************)
(* SettingsSpec: the handlers with every spelling of turn_detection and    *)
(* every pair of endpointing delays, for a room that is on the server when *)
(* the portal starts.  The room stays as it is but for the handlers.       *)
(***************************************************************************)
TurnDetectionInputs ==
    { None, Some(""), Some(" "), Some("ml"), Some("ML"), Some("multilingual"),
      Some(" Multilingual "), Some("stt"), Some("STT"), Some("xyz") }

DelayInputs == { None, Some(1), Some(2) }

SettingsProbes ==
    { [NoSettings EXCEPT !.turn_detection = td,
                         !.min_endpointing_delay = lo,
                         !.max_endpointing_delay = hi] :
          td \in TurnDetectionInputs, lo \in DelayInputs, hi \in DelayInputs }

SettingsInit ==
    /\ roomExists = TRUE
    /\ roomMeta = <<>>
    /\ participants = {}
    /\ dispatches = <<Dispatch(1, AGENT_NAME, <<>>)>>
    /\ nextDispatch = 2
    /\ reqs = [r \in Slots |-> IdleReq]
    /\ chat_ctx = <<>>
    /\ tasks = <<>>
    /\ events = <<>>
    /\ lockHolder = 0
    /\ waiters = <<>>
    /\ delivered = 0
    /\ last = NoPacket
    /\ session = NoSession

SettingsNext ==
    \/ \E r \in Slots, kind \in {"token", "apply"}, raw \in SettingsProbes :
            Serial(r) /\ Begin(r, kind, "valid", TheRoom, raw, FALSE)
    \/ \E r \in Slots, ok \in BOOLEAN : ListRooms(r, ok)
    \/ \E r \in Slots, ok \in BOOLEAN : UpdateRoomMetadata(r, ok)
    \/ \E r \in Slots, ok \in BOOLEAN : ListDispatch(r, ok)
    \/ \E r \in Slots, ok \in BOOLEAN : ListParticipants(r, ok)
    \/ \E r \in Slots, ok \in BOOLEAN : DeleteDispatch(r, ok)
    \/ \E r \in Slots, ok \in BOOLEAN : CreateDispatch(r, ok)
    \/ \E r \in Slots : Respond(r)

SettingsSpec == SettingsInit /\ [][SettingsNext]_vars

(***************************************************************************)
(* agent.py, entrypoint: the session is seeded from the room metadata the  *)
(* job finds.  Anybody holding the API key can have written that metadata, *)
(* so the two endpointing delays are taken from every kind of JSON value.  *)
(* Of session_kwargs the two endpointing delays are modelled.              *)
(***************************************************************************)
\* float(value.strip()) of the strings the inputs use; None when it raises.
FloatOfString(str) ==
    CASE str = "7" -> Some(7)
      [] str = " 3 " -> Some(3)
      [] OTHER -> None

\* _coerce_float(voice_settings.get(key))
coerce_float(settings, key) ==
    LET hits == { kv \in settings : kv[1] = key }
        value == (CHOOSE kv \in hits : TRUE)[2]
    IN  IF hits = {} THEN None
        ELSE IF value[1] = "num" THEN Some(value[2])
        ELSE IF value[1] = "str" THEN FloatOfString(value[2])
        ELSE None

\* if v is not None and 0.0 <= v <= 10.0: session_kwargs[key] = v
InDelayRange(v) == v # None /\ 0 <= v[1] /\ v[1] <= 10

Kwargs(lo, hi) == [min_endpointing_delay |-> lo, max_endpointing_delay |-> hi]

\* Mutant of session_kwargs: the delays are applied as they were found.
session_kwargs_NoSwap(settings) ==
    LET lo == coerce_float(settings, "min_endpointing_delay")
        hi == coerce_float(settings, "max_endpointing_delay")
    IN  Kwargs(IF InDelayRange(lo) THEN lo ELSE None,
               IF InDelayRange(hi) THEN hi ELSE None)

\* session_kwargs: None stands for a key that is not set.
session_kwargs(settings) ==
    LET lo == coerce_float(settings, "min_endpointing_delay")
        hi == coerce_float(settings, "max_endpointing_delay")
        min_ed == IF InDelayRange(lo) THEN lo ELSE None
        max_ed == IF InDelayRange(hi) THEN hi ELSE None
    IN  IF min_ed # None /\ max_ed # None /\ min_ed[1] > max_ed[1]
        THEN Kwargs(max_ed, min_ed)
        ELSE Kwargs(min_ed, max_ed)

DelayValues ==
    { <<"num", v>> : v \in {0 - 1, 0, 3, 7, 10, 11} }
    \cup { <<"str", "7">>, <<"str", " 3 ">>, <<"str", "fast">>, <<"bool", TRUE>> }

SeedSettings ==
    { lo \cup hi :
        lo \in {{}} \cup { {<<"min_endpointing_delay", v>>} : v \in DelayValues },
        hi \in {{}} \cup { {<<"max_endpointing_delay", v>>} : v \in DelayValues } }

\* await ctx.connect(); voice_settings = _parse_room_voice_settings(...);
\* session_kwargs = ...: the job of dispatch k starts.
entrypoint(k) ==
    /\ roomExists
    /\ k \in 1..Len(dispatches)
    /\ dispatches[k].agent_name = AGENT_NAME
    /\ dispatches[k].jobs = <<>>
    /\ ~session.started
    /\ dispatches' = [dispatches EXCEPT ![k].jobs = <<roomMeta>>]
    /\ session' = [started |-> TRUE,
                   kwargs |-> session_kwargs(parse_room_voice_settings(roomMeta))]
    /\ UNCHANGED <<chat_ctx, tasks, events, lockHolder, waiters, delivered, last>>
    /\ UNCHANGED <<roomExists, roomMeta, participants, nextDispatch, reqs>>

\* The room is on the server with some metadata and the agent's dispatch.
SeedInit ==
    /\ roomExists = TRUE
    /\ roomMeta \in { EncodeMetadata(settings) : settings \in SeedSettings }
    /\ participants = {}
    /\ dispatches = <<Dispatch(1, AGENT_NAME, <<>>)>>
    /\ nextDispatch = 2
    /\ reqs = [r \in Slots |-> IdleReq]
    /\ chat_ctx = <<>>
    /\ tasks = <<>>
    /\ events = <<>>
    /\ lockHolder = 0
    /\ waiters = <<>>
    /\ delivered = 0
    /\ last = NoPacket
    /\ session = NoSession

SeedNext == \E k \in 1..Len(dispatches) : entrypoint(k)

SeedSpec == SeedInit /\ [][SeedNext]_vars

(***************************************************************************)
(* Two requests for the room at once.  The room is on the server with the  *)
(* dispatch it was created with, whose job is running; no call fails,      *)
(* except that the deletion of a dispatch that another request has already *)
(* deleted may be answered with an error or with success.                  *)
(***************************************************************************)
RaceSettings == { NoSettings, [NoSettings EXCEPT !.turn_detection = Some("stt")] }

RaceInit ==
    /\ roomExists = TRUE
    /\ roomMeta = <<>>
    /\ participants = {}
    /\ dispatches = <<Dispatch(0, AGENT_NAME, << <<>> >>)>>
    /\ nextDispatch = 1
    /\ reqs = [r \in Slots |-> IdleReq]
    /\ chat_ctx = <<>>
    /\ tasks = <<>>
    /\ events = <<>>
    /\ lockHolder = 0
    /\ waiters = <<>>
    /\ delivered = 0
    /\ last = NoPacket
    /\ session = NoSession

\* The dispatch the request is about to delete is no longer on the server.
AlreadyDeleted(req) == \A k \in 1..Len(dispatches) : dispatches[k].id # Head(req.todo)

RaceNext ==
    \/ \E r \in Slots, kind \in {"token", "apply"}, raw \in RaceSettings :
            Begin(r, kind, "valid", TheRoom, raw, FALSE)
    \/ \E r \in Slots : ListRooms(r, TRUE)
    \/ \E r \in Slots : UpdateRoomMetadata(r, TRUE)
    \/ \E r \in Slots : ListDispatch(r, TRUE)
    \/ \E r \in Slots : ListParticipants(r, TRUE)
    \/ \E r \in Slots, ok \in BOOLEAN :
            /\ reqs[r].pc = "delete_dispatch"
            /\ ok \/ AlreadyDeleted(reqs[r])
            /\ DeleteDispatch(r, ok)
    \/ \E r \in Slots : CreateDispatch(r, TRUE)
    \/ \E k \in 1..Len(dispatches) : JobStart(k)

RaceSpec == RaceInit /\ [][RaceNext]_vars

(***************************************************************************)
(* Properties of the agent session (AgentSpec).                            *)
(***************************************************************************)
\* The events task i has scheduled.
EventsOf(i) == SelectSeq(events, LAMBDA e : e.req = i)

\* Task i takes the lock in this step.
TakesLock(i) ==
    /\ i \in TaskIds
    /\ tasks[i].pc \in {"created", "waiting"}
    /\ tasks'[i].pc \in {"applying", "done"}

\* C1: starting from an empty ledger, after any sequence of context_set
\* and context_clear operations the characters of all tagged items in the
\* agent's chat context, every part counted, never exceed MAX_CONTEXT_CHARS.
\* The code clips the incoming text to the budget and then stores it behind
\* the 39-character prefix, which the count includes.
C1_TotalWithinBudget == context_total_chars(chat_ctx) <= MAX_CONTEXT_CHARS

\* C2: a context_set with non-empty text handled while the tagged items that
\* would remain already total at least the budget publishes one
\* context_error carrying max_chars and chars, publishes no context_set, and
\* leaves the agent's chat context as it was.
C2_Rejected(i) ==
    /\ TakesLock(i)
    /\ tasks[i].op = "context_set"
    /\ Strip(tasks[i].text) # <<>>
    /\ tasks'[i].next # "copy_error"
    /\ LET kept == IF NormMode(tasks[i].mode) = "replace"
                   THEN RemoveContextItems(chat_ctx) ELSE chat_ctx
       IN  context_total_chars(kept) >= MAX_CONTEXT_CHARS

C2_FullIsRejected ==
    [][\A i \in TaskIds :
          C2_Rejected(i) =>
            /\ chat_ctx' = chat_ctx
            /\ tasks'[i].pc = "done"
            /\ Len(events') = Len(events) + 1
            /\ LET e == events'[Len(events')]
               IN  /\ e.event = "context_error"
                   /\ e.req = i
                   /\ e.data.max_chars = MAX_CONTEXT_CHARS
                   /\ e.data.chars = context_total_chars(chat_ctx)
                   /\ e.data.chars >= MAX_CONTEXT_CHARS]_vars

\* A context_set was rejected because the ledger was full.
C2_Witness ==
    \E i \in TaskIds :
        /\ tasks[i].op = "context_set"
        /\ tasks[i].next = "full"
        /\ tasks[i].pc = "done"
        /\ EventsOf(i) # <<>>
        /\ EventsOf(i)[1].event = "context_error"
        /\ EventsOf(i)[1].data.chars >= MAX_CONTEXT_CHARS
        /\ context_total_chars(chat_ctx) >= MAX_CONTEXT_CHARS

\* What a finished task did to the chat context, had it run alone on ctx.
Alone(ctx, t, id) ==
    IF ~t.applied THEN ctx
    ELSE IF t.op = "context_clear" THEN RemoveContextItems(ctx)
    ELSE LET p == ApplyContextPrepare(ctx, t.text, t.mode, id, FALSE, FALSE)
         IN  IF p.next \in {"await_clear", "await_set"} THEN p.local ELSE ctx

\* The first k tasks run one after another, in arrival order.
RECURSIVE InArrivalOrder(_)
InArrivalOrder(k) ==
    IF k = 0 THEN <<>> ELSE Alone(InArrivalOrder(k - 1), tasks[k], k)

NumDone == Cardinality({ i \in TaskIds : tasks[i].pc = "done" })

\* C3: control messages are applied in arrival order: a later task is
\* inside its copy-modify-apply sequence, or past it, only when every
\* earlier task has finished, and the chat context is what the finished
\* tasks yield when run one after another in arrival order.
C3_ArrivalOrder ==
    /\ \A i, j \in TaskIds :
          i < j /\ tasks[j].pc \in {"applying", "done"} => tasks[i].pc = "done"
    /\ chat_ctx = InArrivalOrder(NumDone)

\* Two context_set messages, both applied, the second appended to the first.
C3_Witness ==
    /\ Len(tasks) >= 2
    /\ \A i \in 1..2 :
          /\ tasks[i].op = "context_set"
          /\ tasks[i].pc = "done"
          /\ tasks[i].next = "await_set"
          /\ tasks[i].applied
    /\ tasks[2].mode = "append"
    /\ Len(chat_ctx) = 1
    /\ Len(chat_ctx[1].content) = 2

\* C4: at most one task is between taking its copy of the chat context and
\* the end of its apply step, and that task holds the lock.
C4_OneMutationAtATime ==
    \A i, j \in TaskIds :
        tasks[i].pc = "applying" /\ tasks[j].pc = "applying" =>
            i = j /\ lockHolder = i

\* A context_clear waits while a context_set is in its apply step.
C4_Witness ==
    \E i, j \in TaskIds :
        /\ tasks[i].pc = "applying"
        /\ tasks[i].op = "context_set"
        /\ tasks[j].pc = "waiting"
        /\ tasks[j].op = "context_clear"
        /\ waiters = <<j>>

\* A packet was delivered in this step.
Delivery == delivered' = delivered + 1

\* C5 as stated: a packet on the control topic whose sender identity does
\* not start with "owui:", the empty identity included, changes neither the
\* chat context nor the tasks nor the events.
C5_NoPrefixNoEffect ==
    [][Delivery /\ last'.topic = CONTROL_DATA_TOPIC
                /\ ~StartsWith(last'.identity, "owui:")
          => UNCHANGED <<chat_ctx, tasks, events>>]_vars

\* C5 as amended: a packet on the control topic whose sender identity is
\* not empty and does not start with "owui:" creates no task and schedules
\* no event, so it changes neither the ledger nor the events, and every
\* task and event comes from a sender with the prefix or with no identity.
C5_ForeignSenderNoEffect ==
    [][Delivery /\ last'.topic = CONTROL_DATA_TOPIC
                /\ last'.identity # <<>>
                /\ ~StartsWith(last'.identity, "owui:")
          => UNCHANGED <<chat_ctx, tasks, events, lockHolder, waiters>>]_vars

\* A well-formed control message from a foreign sender was dropped.
C5_Witness ==
    /\ last.route = "warn_sender"
    /\ last.identity = GuestIdentity
    /\ last.topic = CONTROL_DATA_TOPIC
    /\ last.control
    /\ delivered = 2
    /\ Len(tasks) = 1
    /\ Len(events) <= 1

\* C6: a packet on another topic than the control topic changes neither the
\* chat context nor the tasks nor the events, whatever it carries and
\* whoever sent it.
C6_WrongTopicNoEffect ==
    [][Delivery /\ last'.topic # CONTROL_DATA_TOPIC
          => UNCHANGED <<chat_ctx, tasks, events, lockHolder, waiters>>]_vars

\* A well-formed control message of an authorised sender arrived on the
\* wrong topic and was answered with the warning alone.
C6_Witness ==
    /\ last.route = "warn_topic"
    /\ last.topic # CONTROL_DATA_TOPIC
    /\ last.identity = UserIdentity
    /\ last.control
    /\ delivered >= 1

OutcomeEvents == {"context_set", "context_cleared", "context_error"}

\* C7: a task that has finished has scheduled exactly one event, an outcome
\* event, and a task that has not finished has scheduled none.
C7_OneOutcome ==
    \A i \in TaskIds :
        /\ Len(EventsOf(i)) = (IF tasks[i].pc = "done" THEN 1 ELSE 0)
        /\ \A k \in 1..Len(EventsOf(i)) : EventsOf(i)[k].event \in OutcomeEvents

\* A context_set that was applied, then one whose apply step failed.
C7_Witness ==
    /\ Len(tasks) = 2
    /\ tasks[1].pc = "done" /\ tasks[1].op = "context_set" /\ tasks[1].applied
    /\ tasks[2].pc = "done" /\ tasks[2].op = "context_set"
    /\ tasks[2].next = "await_set" /\ ~tasks[2].applied
    /\ Len(events) = 2
    /\ events[1].event = "context_set"
    /\ events[2].event = "context_error"

\* The tagged items of a chat context.
TaggedItems(items) == SelectSeq(items, is_context_item)

\* C17, on the scale of the model: on an empty ledger set("a", replace) and
\* then set(" a ", append), both applied, leave exactly one tagged item whose
\* content is the two parts "a" and " a "; the second outcome reports
\* appended = true and a total of 1 + 3 = 4 characters.
\* The code strips the appended text, stores the first text behind the
\* 39-character prefix and counts the prefix in total_chars.
C17_ReplaceThenAppend ==
    (/\ Len(tasks) = 2
     /\ \A i \in {1, 2} : /\ tasks[i].op = "context_set"
                          /\ tasks[i].pc = "done"
                          /\ tasks[i].applied
     /\ tasks[1].raw = <<"a">> /\ tasks[1].mode = "replace"
     /\ tasks[2].raw = <<" ", "a", " ">> /\ tasks[2].mode = "append") =>
        /\ Len(TaggedItems(chat_ctx)) = 1
        /\ TaggedItems(chat_ctx)[1].content = << <<"a">>, <<" ", "a", " ">> >>
        /\ Len(events) = 2
        /\ events[2].event = "context_set"
        /\ events[2].data.appended
        /\ events[2].data.total_chars = 4

\* C18: a context_clear that completes leaves no tagged item in the ledger,
\* leaves a ledger without tagged items as it is, and schedules exactly one
\* event, context_cleared, which carries no characters.
\* The code schedules context_cleared also after copy() or update_chat_ctx()
\* has raised, with the tagged items still in the ledger.
C18_ClearAlwaysClears ==
    [][\A i \in TaskIds :
          (/\ tasks[i].op = "context_clear"
           /\ tasks[i].pc # "done"
           /\ tasks'[i].pc = "done") =>
              /\ TaggedItems(chat_ctx') = <<>>
              /\ TaggedItems(chat_ctx) = <<>> => chat_ctx' = chat_ctx
              /\ events' = Append(events, ContextClearedEvent(i, ""))
              /\ events'[Len(events')].data.chars = 0]_vars

(***************************************************************************)
(* Properties of the portal (PortalSpec).                                  *)
(***************************************************************************)
\* The request of slot r touched no dispatch.
Untouched(r) == reqs[r].deleted = 0 /\ ~reqs[r].created

\* C8: token path.  When the request has written its metadata to an existing
\* room and finds that a job of the agent's dispatch is running and every job
\* has observed exactly that metadata, it computes restart_needed = False:
\* it returns its grant there and then, having deleted and created nothing.
C8_TokenNotStaleNoRestart ==
    \A r \in Slots :
        (reqs[r].kind = "token" /\ reqs[r].fresh) =>
            /\ reqs[r].pc = "done"
            /\ reqs[r].status = 200
            /\ Untouched(r)

\* A token request for non-empty settings has found the running job up to
\* date with the metadata it wrote, and has returned.
C8_Witness ==
    \E r \in Slots :
        /\ reqs[r].kind = "token"
        /\ reqs[r].fresh
        /\ reqs[r].pc = "done"
        /\ reqs[r].metadata # <<>>
        /\ roomMeta = reqs[r].metadata

C10_OccupiedRoomGuard ==
    \A r \in Slots :
        (reqs[r].occupied /\ ~(reqs[r].kind = "apply" /\ reqs[r].force)) =>
            /\ reqs[r].pc = "done"
            /\ Untouched(r)

\* An apply without force has found another human in a room whose agent
\* had a dispatch, and has been refused; the dispatch is still there.
C10_Witness ==
    \E r \in Slots :
        /\ reqs[r].kind = "apply"
        /\ reqs[r].occupied
        /\ ~reqs[r].force
        /\ reqs[r].pc = "done"
        /\ reqs[r].status = 409
        /\ OtherHuman \in participants
        /\ AgentDispatches(dispatches) # <<>>

\* C11: apply.  A request that listed the participants and saw somebody who
\* is neither an agent nor its caller ends with 409, not 500, when it carries
\* no force; a request with force never ends with 409, and if it saw such a
\* participant and no call to the server failed it ends with 200, having
\* deleted every dispatch of the agent it listed and created a new one.
C11_ConflictOrForcedRestart ==
    \A r \in Slots :
        (reqs[r].kind = "apply" /\ reqs[r].pc = "done") =>
            /\ (reqs[r].occupied /\ ~reqs[r].force) => reqs[r].status = 409
            /\ reqs[r].force => reqs[r].status # 409
            /\ (reqs[r].occupied /\ reqs[r].force) =>
                  /\ reqs[r].status \in {200, 500}
                  /\ reqs[r].status = 200 =>
                        /\ reqs[r].created
                        /\ reqs[r].deleted = Len(reqs[r].listed)

\* An apply with force has restarted the agent of a room in which another
\* human is present.
C11_Witness ==
    \E r \in Slots :
        /\ reqs[r].kind = "apply"
        /\ reqs[r].force
        /\ reqs[r].occupied
        /\ reqs[r].pc = "done"
        /\ reqs[r].status = 200
        /\ reqs[r].created
        /\ reqs[r].deleted > 0
        /\ OtherHuman \in participants

\* C12: token and apply.  A request without Authorization header, with a
\* header that is not a Bearer one, with a credential that does not decode
\* or with a decoded credential without "id" ends with 401 and has made no
\* call to the server.
C12_UnauthorizedBeforeAnyCall ==
    \A r \in Slots :
        (reqs[r].pc # "idle"
         /\ reqs[r].call.auth \in {"missing", "basic", "undecodable", "no_id"}) =>
            /\ reqs[r].pc = "done"
            /\ reqs[r].status = 401
            /\ reqs[r].calls = <<>>
            /\ Untouched(r)

\* An apply whose credential decodes but carries no "id" has been refused
\* while the room exists and has a dispatch.
C12_Witness ==
    \E r \in Slots :
        /\ reqs[r].kind = "apply"
        /\ reqs[r].call.auth = "no_id"
        /\ reqs[r].status = 401
        /\ roomExists
        /\ dispatches # <<>>

\* The room names and the settings the handlers refuse.
InvalidRooms == { <<"l","o","b","b","y","-","1">>, RoomPrefix \o <<"1","/","2">> }

InvalidSettings ==
    { [NoSettings EXCEPT !.llm_model = Some("gpt-4")],
      [NoSettings EXCEPT !.turn_detection = Some("xyz")],
      [NoSettings EXCEPT !.turn_detection = Some(" ")],
      [NoSettings EXCEPT !.tts_voice = Some([n \in 1..257 |-> "v"])],
      [NoSettings EXCEPT !.min_endpointing_delay = Some(2), !.max_endpointing_delay = Some(1)] }

\* C13: token and apply.  An authorized request with an invalid room name
\* (for apply also a missing one) or an invalid settings value ends with 400
\* and has made no call to the server: nothing of the room has been changed
\* by it.
C13_InvalidBeforeAnyCall ==
    \A r \in Slots :
        (/\ reqs[r].pc # "idle"
         /\ reqs[r].call.auth = "valid"
         /\ \/ reqs[r].call.room \in InvalidRooms
            \/ reqs[r].kind = "apply" /\ reqs[r].call.room \in {<<>>, <<" ">>}
            \/ reqs[r].call.raw \in InvalidSettings) =>
            /\ reqs[r].pc = "done"
            /\ reqs[r].status = 400
            /\ reqs[r].calls = <<>>
            /\ reqs[r].metadata = <<>>
            /\ Untouched(r)

\* A token request with min_endpointing_delay > max_endpointing_delay for the
\* existing room has been refused; the room has its metadata and dispatch.
C13_Witness ==
    \E r \in Slots :
        /\ reqs[r].kind = "token"
        /\ reqs[r].call.room = TheRoom
        /\ reqs[r].call.raw.min_endpointing_delay = Some(2)
        /\ reqs[r].call.raw.max_endpointing_delay = Some(1)
        /\ reqs[r].status = 400
        /\ roomExists
        /\ roomMeta # <<>>
        /\ dispatches # <<>>

\* C14: token.  A request that has passed authentication, room name and
\* settings validation returns the grant (200) whichever call to the server
\* has failed.
C14_TokenAlwaysGranted ==
    \A r \in Slots :
        (/\ reqs[r].kind = "token"
         /\ reqs[r].pc = "done"
         /\ reqs[r].call.auth = "valid"
         /\ reqs[r].call.room \notin InvalidRooms
         /\ reqs[r].call.raw \notin InvalidSettings) =>
            /\ reqs[r].status = 200
            /\ reqs[r].room \in {TheRoom, FreshRoom}
            /\ reqs[r].user = Caller

\* A token request has returned its grant after the deletion of a dispatch
\* had succeeded and the creation of the new one had failed.
C14_Witness ==
    \E r \in Slots :
        /\ reqs[r].kind = "token"
        /\ reqs[r].pc = "done"
        /\ reqs[r].status = 200
        /\ reqs[r].failed = "create_dispatch"
        /\ reqs[r].deleted > 0

\* C15: apply.  When list_rooms answers and the room is not on the server,
\* the request ends there with 404 (not 500) and the room's metadata and
\* dispatches are left as they are; a request that ended with 404 has made
\* no other call than list_rooms and has deleted and created nothing.
C15_AbsentRoomIs404 ==
    [][\A r \in Slots :
          /\ (/\ reqs[r].kind = "apply"
              /\ reqs[r].pc = "list_rooms"
              /\ reqs'[r].pc # "list_rooms"
              /\ reqs'[r].failed = ""
              /\ ~roomExists) =>
                 /\ reqs'[r].pc = "done"
                 /\ reqs'[r].status = 404
                 /\ roomMeta' = roomMeta
                 /\ dispatches' = dispatches
          /\ reqs'[r].status = 404 =>
                 /\ reqs'[r].kind = "apply"
                 /\ reqs'[r].calls = <<"list_rooms">>
                 /\ reqs'[r].deleted = 0
                 /\ ~reqs'[r].created]_vars

\* An apply for the room that is not on the server has ended with 404.
C15_Witness ==
    \E r \in Slots :
        /\ reqs[r].kind = "apply"
        /\ reqs[r].pc = "done"
        /\ reqs[r].status = 404
        /\ reqs[r].calls = <<"list_rooms">>
        /\ ~roomExists

\* The calls of an apply that went through: the deletions are as many as
\* the dispatches listed.
RECURSIVE Times(_, _)
Times(name, n) == IF n = 0 THEN <<>> ELSE <<name>> \o Times(name, n - 1)

CallsOfRestart(n) ==
    <<"list_rooms", "update_room_metadata", "list_participants", "list_dispatch">>
        \o Times("delete_dispatch", n) \o <<"create_dispatch">>

\* C16: apply.  A request in which a call to the server failed ends with 500;
\* a request that ended with 200 has made, without failure, the metadata
\* write, the participant listing, the dispatch listing, the deletion of
\* every dispatch of the agent listed and the creation of the new one.
C16_OkOnlyAfterAllCalls ==
    \A r \in Slots :
        (reqs[r].kind = "apply" /\ reqs[r].pc = "done") =>
            /\ reqs[r].failed # "" => reqs[r].status = 500
            /\ reqs[r].status = 500 => reqs[r].failed # ""
            /\ reqs[r].status = 200 =>
                  /\ reqs[r].failed = ""
                  /\ reqs[r].created
                  /\ reqs[r].deleted = Len(reqs[r].listed)
                  /\ reqs[r].calls = CallsOfRestart(Len(reqs[r].listed))

\* An apply has deleted the dispatch of the agent, the creation of the new
\* one has failed, and it has ended with 500.
C16_Witness ==
    \E r \in Slots :
        /\ reqs[r].kind = "apply"
        /\ reqs[r].pc = "done"
        /\ reqs[r].status = 500
        /\ reqs[r].failed = "create_dispatch"
        /\ reqs[r].deleted > 0
        /\ ~reqs[r].created

(***************************************************************************)
(* Properties of the settings validation (SettingsSpec).                   *)
(***************************************************************************)
\* The value of a key in a metadata string, None if the key is not in it.
Field(metadata, key) ==
    IF metadata = <<>> THEN None
    ELSE LET hits == { k \in 1..Len(metadata[2]) : metadata[2][k][1] = key }
         IN  IF hits = {} THEN None ELSE Some(metadata[2][CHOOSE k \in hits : TRUE][2][2])

\* The request of slot r has been refused with a validation error.
Refused(r) == reqs[r].pc = "done" /\ reqs[r].status = 400

\* min_endpointing_delay > max_endpointing_delay, both given.
Inverted(raw) ==
    /\ raw.min_endpointing_delay # None
    /\ raw.max_endpointing_delay # None
    /\ raw.min_endpointing_delay[1] > raw.max_endpointing_delay[1]

\* C19: a request whose turn_detection is "ml" or "multilingual" in any case
\* and with blanks around it has turn_detection "ml" in its metadata, one
\* whose turn_detection is "stt" has "stt", one without turn_detection or
\* with an empty one has no turn_detection in its metadata (none of them is
\* refused unless its delays are inverted), and one with any other value is
\* refused with 400.
C19_TurnDetectionCanonical ==
    \A r \in Slots :
        reqs[r].pc # "idle" =>
            LET raw == reqs[r].call.raw
                td == raw.turn_detection
                stored == Field(reqs[r].metadata, "turn_detection")
            IN  /\ Refused(r) <=> (td \in {Some("xyz"), Some(" ")} \/ Inverted(raw))
                /\ ~Refused(r) =>
                      /\ td \in {Some("ml"), Some("ML"), Some("multilingual"),
                                 Some(" Multilingual ")} => stored = Some("ml")
                      /\ td \in {Some("stt"), Some("STT")} => stored = Some("stt")
                      /\ td \in {None, Some("")} => stored = None

\* A request with turn_detection " Multilingual " has written metadata with
\* turn_detection "ml" to the room.
C19_Witness ==
    \E r \in Slots :
        /\ reqs[r].call.raw.turn_detection = Some(" Multilingual ")
        /\ reqs[r].pc = "done"
        /\ reqs[r].status = 200
        /\ roomMeta = reqs[r].metadata
        /\ Field(roomMeta, "turn_detection") = Some("ml")

\* C20: a request with min_endpointing_delay > max_endpointing_delay is
\* refused with 400 before any call to the server; a request that is not
\* refused carries in its metadata the delays as they were given, and the
\* delays in its metadata and in the room's metadata are never inverted.
C20_DelaysNeverInverted ==
    /\ \A r \in Slots :
          reqs[r].pc # "idle" =>
              LET raw == reqs[r].call.raw
                  lo == Field(reqs[r].metadata, "min_endpointing_delay")
                  hi == Field(reqs[r].metadata, "max_endpointing_delay")
              IN  /\ Inverted(raw) =>
                        /\ Refused(r)
                        /\ reqs[r].calls = <<>>
                        /\ reqs[r].metadata = <<>>
                  /\ ~Refused(r) =>
                        /\ lo = raw.min_endpointing_delay
                        /\ hi = raw.max_endpointing_delay
                        /\ (lo # None /\ hi # None) => lo[1] <= hi[1]
    /\ LET lo == Field(roomMeta, "min_endpointing_delay")
           hi == Field(roomMeta, "max_endpointing_delay")
       IN  (lo # None /\ hi # None) => lo[1] <= hi[1]

\* A request with delays 2 > 1 has been refused; the room still has the
\* delays 1 and 2 written by an earlier request.
C20_Witness ==
    \E r \in Slots :
        /\ reqs[r].call.raw.min_endpointing_delay = Some(2)
        /\ reqs[r].call.raw.max_endpointing_delay = Some(1)
        /\ Refused(r)
        /\ Field(roomMeta, "min_endpointing_delay") = Some(1)
        /\ Field(roomMeta, "max_endpointing_delay") = Some(2)

(***************************************************************************)
(* Properties of the metadata codec (PortalSpec).                          *)
(***************************************************************************)
\* encode(decode(m)) = m
RoundTrips(metadata) == EncodeMetadata(parse_room_voice_settings(metadata)) = metadata

Attempts(evs) == [k \in 1..Len(evs) |-> evs[k].tries]

PublishStep == Len(events') = Len(events) /\ Attempts(events') # Attempts(events)

C22_PublishFailureContained ==
    /\ [](\A k \in 1..Len(events) :
            /\ events[k].tries <= 1
            /\ events[k].sent => events[k].tries = 1
            /\ events[k].tries = 0 => ENABLED publish_debug_event(k, TRUE))
    /\ [][PublishStep =>
            /\ UNCHANGED <<chat_ctx, tasks, lockHolder, waiters, delivered, last>>
            /\ \E k \in 1..Len(events) :
                  /\ events[k].tries = 0
                  /\ \A j \in 1..Len(events) \ {k} : events'[j] = events[j]
                  /\ [events'[k] EXCEPT !.tries = 0, !.sent = FALSE] = events[k]]_vars

\* The event of an applied change was attempted and lost, the change stays
\* applied, and a later event is sent.
C22_Witness ==
    \E j, k \in 1..Len(events) :
        /\ j < k
        /\ events[j].tries = 1 /\ ~events[j].sent
        /\ events[j].req # 0 /\ tasks[events[j].req].applied
        /\ TaggedItems(chat_ctx) # <<>>
        /\ events[k].sent

(***************************************************************************)
(* C23: the data-received callback never waits.  While a task holds the    *)
(* context lock inside its apply, the callback can still be called with    *)
(* every packet, of either topic; and every call of the callback returns   *)
(* with the lock, its waiters, the ledger and the tasks already there as   *)
(* they were, a control message of an authorised sender having added one   *)
(* task of its own that has not run yet.                                   *)
(***************************************************************************)
Blocked == lockHolder # 0 /\ tasks[lockHolder].pc = "applying"

CallbackStep == delivered' = delivered + 1

C23_CallbackNeverWaits ==
    /\ [](Blocked /\ delivered < MaxPackets =>
            \A packet \in ProbePackets : ENABLED on_data_received(packet))
    /\ [][CallbackStep =>
            /\ UNCHANGED <<chat_ctx, lockHolder, waiters>>
            /\ SubSeq(tasks', 1, Len(tasks)) = tasks
            /\ IF last'.control /\ last'.topic = CONTROL_DATA_TOPIC
                  /\ last'.identity = UserIdentity
               THEN /\ Len(tasks') = Len(tasks) + 1
                    /\ tasks'[Len(tasks')].pc = "created"
               ELSE tasks' = tasks]_vars

\* A control message has been queued behind a task that is inside its apply.
C23_Witness ==
    /\ Blocked
    /\ \E j \in TaskIds : j > lockHolder /\ tasks[j].pc = "created"
    /\ last.control /\ last.route = "context_set"
    /\ delivered = Len(tasks)

(***************************************************************************)
(* C24: local recovery.  Whatever packets came before (blank, wrong topic, *)
(* unauthorised sender, invalid JSON, wrong type, unknown op, a set that   *)
(* found the budget full, a failed apply), a well-formed control message   *)
(* of an authorised sender on the control topic gets a task of its own,    *)
(* and once the apply step returns that task ends having scheduled exactly *)
(* one event.                                                              *)
(***************************************************************************)
ValidControl(p) ==
    /\ p.topic = CONTROL_DATA_TOPIC
    /\ p.identity = UserIdentity
    /\ p.kind = "json_object"
    /\ p.route \in {"context_set", "context_clear"}

Answered(i) == i \in TaskIds /\ tasks[i].pc = "done" /\ Len(EventsOf(i)) = 1

InvalidJsonFromAuthorised(p) ==
    /\ p.topic = "owui.voice.control"
    /\ p.identity \in {NoIdentity, UserIdentity}
    /\ p.kind = "not_json"

C25_InvalidJsonOneError ==
    [][CallbackStep /\ InvalidJsonFromAuthorised(last') =>
          /\ Len(events') = Len(events) + 1
          /\ SubSeq(events', 1, Len(events)) = events
          /\ LET e == events'[Len(events')]
             IN  /\ e.event = "context_error"
                 /\ e.message = "Invalid JSON control payload"
                 /\ e.req = 0
          /\ UNCHANGED <<chat_ctx, tasks, lockHolder, waiters>>]_vars

\* The ledger holds a tagged item and the last packet, not JSON, has left its
\* error event behind the event of the item.
C25_Witness ==
    /\ InvalidJsonFromAuthorised(last)
    /\ TaggedItems(chat_ctx) # <<>>
    /\ Len(events) = 2
    /\ events[2].event = "context_error" /\ events[2].req = 0
    /\ events[1].event = "context_set"

(***************************************************************************)
(* C26 to C28 look at the step in which the apply of a context_set returns *)
(* without error: chat_ctx is the ledger before and chat_ctx' after, and   *)
(* the task's event is the last of events'.                                *)
(***************************************************************************)
SetApplied(i, mode) ==
    /\ i \in TaskIds
    /\ tasks[i].op = "context_set" /\ tasks[i].mode = mode
    /\ tasks[i].pc = "applying"
    /\ tasks'[i].pc = "done" /\ tasks'[i].applied

Outcome == events'[Len(events')]

ItemIds(items) == { items[k].id : k \in 1..Len(items) }

\* What replace does with a text taken as empty or not by isEmpty.
ReplaceAsClaimed(i, isEmpty) ==
    LET before == TaggedItems(chat_ctx)
        after == TaggedItems(chat_ctx')
    IN  IF isEmpty
        THEN /\ after = <<>>
             /\ Outcome.event = "context_cleared" /\ Outcome.req = i
        ELSE /\ Len(after) = 1
             /\ after[1].id \notin ItemIds(before)
             /\ Outcome.event = "context_set" /\ Outcome.req = i
             /\ Outcome.data.id = after[1].id

OnlyWhitespace(text) == \A k \in 1..Len(text) : text[k] \in Whitespace

AppendAsClaimed(i, text) ==
    LET before == TaggedItems(chat_ctx)
        after == TaggedItems(chat_ctx')
        n == Len(before)
        stored(part) == part # <<>> /\ part = SubSeq(text, 1, Len(part))
    IN  /\ Outcome.event = "context_set" /\ Outcome.req = i
        /\ Len(after) = (IF n = 0 THEN 1 ELSE n)
        /\ IF n > 0
           THEN /\ \A k \in 1..(n - 1) : after[k] = before[k]
                /\ after[n].id = before[n].id
                /\ Len(after[n].content) = Len(before[n].content) + 1
                /\ SubSeq(after[n].content, 1, Len(before[n].content)) = before[n].content
                /\ stored(after[n].content[Len(after[n].content)])
                /\ Outcome.data.appended
           ELSE /\ Len(after[1].content) = 1
                /\ stored(SubSeq(after[1].content[1], Len(ContextPrefix) + 1,
                                 Len(after[1].content[1])))
                /\ ~Outcome.data.appended

StoredText(i) ==
    LET after == TaggedItems(chat_ctx')
        k == CHOOSE k \in 1..Len(after) : after[k].id = Outcome.data.id
        part == after[k].content[Len(after[k].content)]
    IN  IF Outcome.data.appended THEN part
        ELSE SubSeq(part, Len(ContextPrefix) + 1, Len(part))

\* The tagged characters that stay in the ledger.
Staying(mode) ==
    IF mode = "replace" THEN 0 ELSE context_total_chars(TaggedItems(chat_ctx))

TruncatesAsClaimed(i, mode, text) ==
    LET remaining == MAX_CONTEXT_CHARS - Staying(mode)
    IN  /\ Outcome.event = "context_set" /\ Outcome.req = i
        /\ IF Len(text) > remaining
           THEN /\ StoredText(i) = SubSeq(text, 1, remaining)
                /\ Outcome.data.truncated
                /\ Outcome.data.chars = remaining
           ELSE /\ StoredText(i) = text
                /\ ~Outcome.data.truncated
                /\ Outcome.data.chars = Len(text)

AbsentRoomListed(r) ==
    /\ reqs[r].kind = "token"
    /\ reqs[r].pc = "list_rooms" /\ reqs'[r].pc # "list_rooms"
    /\ reqs'[r].failed = ""
    /\ ~(roomExists /\ reqs[r].room = TheRoom)

C29_AbsentRoomOnlyGrant ==
    /\ [][\A r \in Slots :
            AbsentRoomListed(r) =>
                /\ reqs'[r].pc = "done" /\ reqs'[r].status = 200
                /\ reqs'[r].calls = <<"list_rooms">>
                /\ reqs'[r].deleted = 0 /\ ~reqs'[r].created
                /\ reqs'[r].metadata = reqs[r].metadata
                /\ UNCHANGED <<roomExists, roomMeta, dispatches, nextDispatch>>]_vars
    /\ [][~roomExists /\ roomExists' =>
            \E r \in Slots :
                /\ reqs[r].kind = "token" /\ reqs[r].pc = "done"
                /\ roomMeta' = reqs[r].metadata
                /\ Len(dispatches') = 1
                /\ dispatches'[1].agent_name = AGENT_NAME]_vars

\* The grant for the absent room has been used: the room is there with the
\* settings of the grant and one dispatch, the handler having only listed.
C29_Witness ==
    \E r \in Slots :
        /\ reqs[r].kind = "token" /\ reqs[r].pc = "done" /\ reqs[r].status = 200
        /\ reqs[r].calls = <<"list_rooms">> /\ reqs[r].failed = ""
        /\ reqs[r].metadata # <<>>
        /\ roomExists /\ roomMeta = reqs[r].metadata
        /\ Len(dispatches) = 1 /\ dispatches[1].agent_name = AGENT_NAME
        /\ CallerIdentity(reqs[r].user) \in participants

(***************************************************************************)
(* C30: for a room that is on the server /token and /apply write the       *)
(* requested metadata before they look at dispatches or participants:      *)
(* update_room_metadata is the call right after list_rooms and every call  *)
(* about dispatches or participants comes after it.  So when the handler   *)
(* returns after a write that did not fail, the room, if still there, has  *)
(* the requested metadata; in particular when /token has skipped the       *)
(* restart for an occupied room and when /apply is refused with 409.       *)
(***************************************************************************)
Decisions == {"list_dispatch", "list_participants", "delete_dispatch", "create_dispatch"}

Wrote(req) ==
    /\ Len(req.calls) >= 2
    /\ req.calls[2] = "update_room_metadata"
    /\ req.failed # "update_room_metadata"

Returns(r) == reqs[r].pc \notin {"idle", "done"} /\ reqs'[r].pc = "done"

RestartSkipped(req) ==
    /\ req.kind = "token" /\ req.status = 200 /\ req.failed = ""
    /\ req.calls[Len(req.calls)] = "list_participants"
    /\ req.deleted = 0 /\ ~req.created

C30_MetadataWrittenFirst ==
    /\ [](\A r \in Slots :
            \A k \in 1..Len(reqs[r].calls) :
                reqs[r].calls[k] \in Decisions =>
                    /\ k > 2
                    /\ reqs[r].calls[1] = "list_rooms"
                    /\ reqs[r].calls[2] = "update_room_metadata")
    /\ [][\A r \in Slots :
            Returns(r) /\ Wrote(reqs'[r]) =>
                /\ roomExists' => roomMeta' = reqs'[r].metadata
                /\ RestartSkipped(reqs'[r]) \/ reqs'[r].status = 409 =>
                      roomExists' /\ roomMeta' = reqs'[r].metadata]_vars

\* /apply has been refused with 409: the room has the new metadata, and the
\* job of the dispatch it did not restart still runs on other metadata.
C30_Witness ==
    \E r \in Slots :
        /\ reqs[r].kind = "apply" /\ reqs[r].pc = "done" /\ reqs[r].status = 409
        /\ reqs[r].metadata # <<>>
        /\ roomMeta = reqs[r].metadata
        /\ \E k \in 1..Len(dispatches) :
              dispatches[k].jobs # <<>> /\ dispatches[k].jobs[1] # roomMeta

(***************************************************************************)
(* C31: the restart decision of /token.  When list_dispatch has answered,  *)
(* the handler goes on to the participants (restart needed) exactly when   *)
(* the room has no dispatch of this agent or a job of such a dispatch has  *)
(* started from metadata other than the metadata just written; otherwise   *)
(* it returns.  Dispatches of other agents do not count, and a dispatch of *)
(* this agent without a job does not make the room stale.                  *)
(***************************************************************************)
Mine(ds) == { k \in 1..Len(ds) : ds[k].agent_name = "owui-voice" }

Stale(ds, metadata) ==
    \/ Mine(ds) = {}
    \/ \E k \in Mine(ds) : \E n \in 1..Len(ds[k].jobs) : ds[k].jobs[n] # metadata

DispatchesListed(r, kind) ==
    /\ reqs[r].kind = kind
    /\ reqs[r].pc = "list_dispatch" /\ reqs'[r].pc # "list_dispatch"
    /\ reqs'[r].failed = ""

C31_StaleExactly ==
    [][\A r \in Slots :
          DispatchesListed(r, "token") =>
              IF Stale(dispatches, reqs[r].metadata)
              THEN reqs'[r].pc = "list_participants"
              ELSE /\ reqs'[r].pc = "done" /\ reqs'[r].status = 200
                   /\ reqs'[r].deleted = 0 /\ ~reqs'[r].created]_vars

\* /token has returned without restart from a room where the job of another
\* agent's dispatch runs on other metadata and this agent's dispatch has no
\* job yet.
C31_Witness ==
    \E r \in Slots :
        /\ reqs[r].kind = "token" /\ reqs[r].pc = "done" /\ reqs[r].failed = ""
        /\ reqs[r].calls = <<"list_rooms", "update_room_metadata", "list_dispatch">>
        /\ roomMeta = reqs[r].metadata
        /\ \E k \in 1..Len(dispatches) :
              /\ dispatches[k].agent_name # "owui-voice"
              /\ dispatches[k].jobs # <<>> /\ dispatches[k].jobs[1] # roomMeta
        /\ \E k \in Mine(dispatches) : dispatches[k].jobs = <<>>

(***************************************************************************)
(* C32: a restart that met no failure.  When create_dispatch has answered  *)
(* and the handler returns, the room has exactly one dispatch of this      *)
(* agent, the new one: every dispatch of the agent that was listed has     *)
(* been deleted, each deletion before the creation, which is the last call.*)
(* No call of the restart changes the dispatches of other agents.          *)
(***************************************************************************)
Others(ds) == SelectSeq(ds, LAMBDA d : d.agent_name # "owui-voice")

Restarted(r) ==
    /\ reqs[r].pc = "create_dispatch"
    /\ reqs'[r].pc = "done" /\ reqs'[r].failed = ""

Restarting(r) ==
    /\ reqs[r].pc \in {"delete_dispatch", "create_dispatch"}
    /\ reqs'[r].pc # reqs[r].pc \/ reqs'[r].calls # reqs[r].calls

C32_RestartLeavesOneDispatch ==
    [][\A r \in Slots :
          /\ Restarting(r) => Others(dispatches') = Others(dispatches)
          /\ Restarted(r) =>
                LET calls == reqs'[r].calls
                    n == Len(calls)
                    made == { k \in 1..n : calls[k] = "create_dispatch" }
                    undone == { k \in 1..n : calls[k] = "delete_dispatch" }
                IN  /\ reqs'[r].status = 200
                    /\ Cardinality(Mine(dispatches')) = 1
                    /\ \A k \in Mine(dispatches') :
                          /\ dispatches'[k].jobs = <<>>
                          /\ \A j \in 1..Len(reqs'[r].listed) :
                                dispatches'[k].id # reqs'[r].listed[j]
                    /\ made = {n}
                    /\ Cardinality(undone) = Len(reqs'[r].listed)
                    /\ reqs'[r].deleted = Len(reqs'[r].listed)]_vars

\* A restart has replaced the agent's dispatch beside the running dispatch
\* of another agent.
C32_Witness ==
    \E r \in Slots :
        /\ reqs[r].pc = "done" /\ reqs[r].created /\ reqs[r].deleted = 1
        /\ reqs[r].failed = ""
        /\ Cardinality(Mine(dispatches)) = 1
        /\ Len(Others(dispatches)) = 1 /\ Others(dispatches)[1].jobs # <<>>

(***************************************************************************)
(* C33: recovery of an interrupted restart.  A reconciliation of a room    *)
(* that is on the server, that meets no failure and is not held back by an *)
(* occupant, leaves the room with a dispatch of the agent, and no job of   *)
(* the agent's dispatches runs on metadata other than the room's, which is *)
(* the requested metadata - whatever an earlier reconciliation had left    *)
(* behind: the old dispatches with their jobs, some of them, or none.      *)
(***************************************************************************)
Reconciled(r) ==
    /\ Returns(r)
    /\ reqs'[r].failed = "" /\ reqs'[r].status = 200
    /\ Wrote(reqs'[r])
    /\ ~RestartSkipped(reqs'[r])

C33_InterruptedRestartRecovered ==
    [][\A r \in Slots :
          Reconciled(r) =>
              /\ roomExists' /\ roomMeta' = reqs'[r].metadata
              /\ Mine(dispatches') # {}
              /\ ~Stale(dispatches', roomMeta')]_vars

\* The reconciliation found the room without any dispatch of the agent, as a
\* restart that failed after its deletions leaves it, and has created one.
C33_Witness ==
    \E r \in Slots :
        /\ reqs[r].pc = "done" /\ reqs[r].status = 200 /\ reqs[r].failed = ""
        /\ reqs[r].kind = "token"
        /\ reqs[r].listed = <<>> /\ reqs[r].created /\ reqs[r].deleted = 0
        /\ roomExists /\ roomMeta = reqs[r].metadata /\ roomMeta # <<>>
        /\ Cardinality(Mine(dispatches)) = 1

(***************************************************************************)
(* C34: the caller as occupant.  /token lists the participants only when   *)
(* the dispatch is stale; if the caller is then the only participant who   *)
(* is not an agent, /token skips the restart and returns.  /apply, with    *)
(* nobody in the room but agents and the caller, is never refused: it goes *)
(* on to the restart, forced or not.                                       *)
(***************************************************************************)

Humans(people) == { q \in people : q[1] # "agent-" }

ParticipantsListed(r, kind) ==
    /\ reqs[r].kind = kind
    /\ reqs[r].pc = "list_participants" /\ reqs'[r].pc # "list_participants"
    /\ reqs'[r].failed = ""

C34_CallerCountsForTokenOnly ==
    [][\A r \in Slots :
          /\ ParticipantsListed(r, "token")
               /\ Humans(participants) = {<<"owui:", reqs[r].user>>} =>
                  /\ reqs'[r].pc = "done" /\ reqs'[r].status = 200
                  /\ reqs'[r].deleted = 0 /\ ~reqs'[r].created
                  /\ UNCHANGED dispatches
          /\ ParticipantsListed(r, "apply")
               /\ Humans(participants) \subseteq {<<"owui:", reqs[r].user>>} =>
                  /\ reqs'[r].pc = "list_dispatch"
                  /\ reqs'[r].status # 409]_vars

\* /token has skipped the restart of a stale dispatch for the caller alone.
C34_Witness ==
    \E r \in Slots :
        /\ reqs[r].pc = "done" /\ RestartSkipped(reqs[r])
        /\ Humans(participants) = {<<"owui:", reqs[r].user>>}
        /\ Stale(dispatches, reqs[r].metadata)
        /\ roomMeta = reqs[r].metadata

(***************************************************************************)
(* C35: the endpointing delays of a started session.  When both are set,   *)
(* min <= max; each delay that is set is the number of one of the two      *)
(* delays of the room metadata and lies in [0, 10]; a pair that is in      *)
(* range and inverted in the metadata is set the other way round, not      *)
(* dropped; and a delay of the metadata outside [0, 10] is not set.        *)
(***************************************************************************)
C35_SeededDelaysOrdered ==
    session.started =>
        LET settings == parse_room_voice_settings(roomMeta)
            lo == coerce_float(settings, "min_endpointing_delay")
            hi == coerce_float(settings, "max_endpointing_delay")
            ok(v) == v # None /\ v[1] >= 0 /\ v[1] <= 10
            min_ed == session.kwargs.min_endpointing_delay
            max_ed == session.kwargs.max_endpointing_delay
        IN  /\ min_ed # None /\ max_ed # None => min_ed[1] <= max_ed[1]
            /\ \A v \in {min_ed, max_ed} \ {None} : v \in {lo, hi} /\ ok(v)
            /\ ok(lo) /\ ok(hi) /\ lo[1] > hi[1] => min_ed = hi /\ max_ed = lo
            /\ ok(lo) /\ ok(hi) /\ lo[1] <= hi[1] => min_ed = lo /\ max_ed = hi
            /\ ok(lo) /\ ~ok(hi) => min_ed = lo /\ max_ed = None
            /\ ~ok(lo) /\ ok(hi) => min_ed = None /\ max_ed = hi
            /\ ~ok(lo) /\ ~ok(hi) => min_ed = None /\ max_ed = None

\* The metadata has min 7 and max 3; the session runs with min 3 and max 7.
C35_Witness ==
    /\ session.started
    /\ roomMeta = <<"owui_voice", << <<"max_endpointing_delay", <<"num", 3>> >>,
                                  <<"min_endpointing_delay", <<"num", 7>> >> >> >>
    /\ session.kwargs = [min_endpointing_delay |-> Some(3), max_endpointing_delay |-> Some(7)]

(***************************************************************************)
(* C36: from a ledger without tagged item, whatever context_set and        *)
(* context_clear messages are handled, the chat context never holds more   *)
(* than one tagged item, and neither does the copy a task is working on.   *)
(***************************************************************************)
C36_AtMostOneTaggedItem ==
    /\ Len(TaggedItems(chat_ctx)) <= 1
    /\ \A i \in TaskIds :
          tasks[i].pc = "applying" => Len(TaggedItems(tasks[i].prep.local)) <= 1

\* Two sets in append mode have been applied: the one item has two parts.
C36_Witness ==
    /\ Len(tasks) = 2
    /\ \A i \in {1, 2} :
          tasks[i].op = "context_set" /\ tasks[i].mode = "append" /\ tasks[i].applied
    /\ Len(TaggedItems(chat_ctx)) = 1
    /\ Len(TaggedItems(chat_ctx)[1].content) = 2

(***************************************************************************)
(* C37: when a task whose apply has returned without error schedules a     *)
(* context_cleared event and releases the lock, the chat context holds no  *)
(* tagged item - for context_clear and for a context_set whose text is     *)
(* empty or whitespace only, in replace and in append mode.                *)
(***************************************************************************)
ClearedApplied(i) ==
    /\ tasks[i].pc = "applying"
    /\ tasks'[i].pc = "done" /\ tasks'[i].applied
    /\ lockHolder = i /\ lockHolder' = 0
    /\ Len(events') = Len(events) + 1
    /\ Outcome.event = "context_cleared" /\ Outcome.req = i

C37_ClearedLeavesNoTaggedItem ==
    [][\A i \in TaskIds : ClearedApplied(i) => TaggedItems(chat_ctx') = <<>>]_vars

(***************************************************************************)
(* C38: context_set and context_clear leave the dialogue alone.  The items *)
(* without tag in the copy a task goes on to apply are the items without   *)
(* tag of the chat context at the moment of the copy, in the same order    *)
(* and unchanged, and it is that copy which the apply puts in place.       *)
(***************************************************************************)
TakesCopy(i) ==
    /\ tasks[i].pc \in {"created", "waiting"}
    /\ tasks'[i].pc = "applying"

C38_DialogueItemsKept ==
    [][\A i \in TaskIds :
          /\ TakesCopy(i) =>
                DialogueItems(tasks'[i].prep.local) = DialogueItems(chat_ctx)
          /\ tasks[i].pc = "applying" /\ tasks'[i].pc = "done" /\ tasks'[i].applied =>
                DialogueItems(chat_ctx') = DialogueItems(tasks[i].prep.local)]_vars

\* A replace has been applied to a context with a message and a function
\* call around the tagged item of an earlier set: both are still there.
C38_Witness ==
    /\ Len(tasks) = 2 /\ tasks[1].applied /\ tasks[2].applied
    /\ tasks[2].op = "context_set" /\ tasks[2].mode = "replace"
    /\ Len(chat_ctx) = 3
    /\ chat_ctx[1].type = "message" /\ ~chat_ctx[1].tagged
    /\ chat_ctx[2].type = "function_call"
    /\ chat_ctx[3].tagged /\ chat_ctx[3].id = 2

(***************************************************************************)
(* C39: no lost update.  Every dialogue item that is in the agent's chat   *)
(* context when the apply of a context mutation completes - so also an     *)
(* item the pipeline has added since the mutation took its copy - is in    *)
(* the chat context after it.                                              *)
(***************************************************************************)
C39_PipelineItemSurvivesApply ==
    [][\A i \in TaskIds :
          tasks[i].pc = "applying" /\ tasks'[i].pc = "done" =>
              \A k \in 1..Len(chat_ctx) :
                  ~chat_ctx[k].tagged =>
                      \E j \in 1..Len(chat_ctx') : chat_ctx'[j] = chat_ctx[k]]_vars

(***************************************************************************)
(* C40: two reconciliations of the same room at once.  When both requests  *)
(* have returned, neither having met a failure, the room has exactly one   *)
(* dispatch of this agent.                                                 *)
(***************************************************************************)
BothReturned ==
    \A r \in Slots :
        reqs[r].pc = "done" /\ reqs[r].failed = "" /\ reqs[r].status = 200

C40_OneDispatchAfterRace ==
    BothReturned => Cardinality(Mine(dispatches)) = 1

\* The interleaving in which no dispatch is deleted twice: one request has
\* deleted the old dispatch, the other has listed none, both have created.
C40_TwoDispatches ==
    /\ BothReturned
    /\ Cardinality(Mine(dispatches)) = 2
    /\ \E r, o \in Slots :
          /\ reqs[r].deleted = 1 /\ reqs[r].created
          /\ reqs[o].listed = <<>> /\ reqs[o].deleted = 0 /\ reqs[o].created

=============================================================================
